---- MODULE Spec2Model ----
(***************************************************************************)
(* Cluster pairing, device registry and liveness of the CTHz device        *)
(* manager (src/CTHz/src/cluster/routes.py, src/CTHz/src/cluster/service.py,*)
(* src/CTHz/src/devices/routes.py).                                        *)
(*                                                                         *)
(* A step of the model is the code a request handler runs between two      *)
(* suspension points (an awaited outbound HTTP call) or inside one         *)
(* `with SessionLocal()` block.  Python None is the string "None" for      *)
(* string columns and NoTime for DateTime columns.  Times are seconds.     *)
(***************************************************************************)
EXTENDS Integers, Sequences, FiniteSets, TLC

\* ---------------------------------------------------------------- bounds
NumCallers == 2
MaxPairs == 2
MaxTokens == 2
MaxPresented == 2
MaxTicks == 1
TickSeconds == 700
MaxRows == 2
MaxCalls == 3
ProbePeers == 3
NumSigners == 2
AuthPairs == 1

\* ------------------------------------------------------ program constants
TokenTTL == 600
DefaultPort == 8000
OnlineBelow == 120
WarningBelow == 600

None == "None"
NoTime == -1
NoPort == 0

VARIABLES now, paired_devices, pairing_tokens, device_metadata, caCount,
          uuidCtr, call, issued, pairsStarted, peerDeviceId, csrLog,
          presented, reply, lst, getRes, log, sig, net, inst, users

vars == <<now, paired_devices, pairing_tokens, device_metadata, caCount,
          uuidCtr, call, issued, pairsStarted, peerDeviceId, csrLog,
          presented, reply, lst, getRes, log, sig, net, inst, users>>

dbVars == <<paired_devices, pairing_tokens, device_metadata>>
listVars == <<lst, getRes>>
pairVars == <<call, issued, pairsStarted, csrLog, presented, uuidCtr, caCount>>
\* log: the responses a client got from the one-step endpoints, in order;
\* sig: the sign_csr requests in progress; net: how the node at an address
\* answers GET /healthz and GET /api/devices/info while a list call probes
\* inst: the install_cert request each joining node is handling;
\* users: the number of rows of the User table
adminVars == <<log, sig, net, inst>>

Callers == 1..NumCallers

\* ------------------------------------------------------------- addresses
\* target_ip is "host" or "host:port"; port = NoPort means no ":" in it.
Addr(h, p) == [host |-> h, port |-> p]
NoAddr == Addr("None", NoPort)
Targets == {Addr("h1", NoPort), Addr("h2", DefaultPort)}

\* device_base of pair_device_via_manager: append :8000 when no port given
DeviceBase(target_ip) ==
    IF target_ip.port # NoPort THEN target_ip
    ELSE Addr(target_ip.host, DefaultPort)

Peers == {DeviceBase(t) : t \in Targets}
ManagerBase == Addr("mgr", DefaultPort)

\* ---------------------------------------------------------- MetadataStore
\* device_metadata is the table as a sequence of rows [key, value].
DefaultKeys == <<"node_role", "cluster_id", "ca_cert_pem", "ca_key_pem",
                 "ca_fingerprint", "device_id", "device_name",
                 "device_model", "device_location", "device_group">>

MetaIndex(rows, key) ==
    IF \E i \in 1..Len(rows) : rows[i].key = key
    THEN CHOOSE i \in 1..Len(rows) :
            /\ rows[i].key = key
            /\ \A j \in 1..(i - 1) : rows[j].key # key
    ELSE 0

get_metadata(rows, key) ==
    IF MetaIndex(rows, key) = 0 THEN None
    ELSE rows[MetaIndex(rows, key)].value

set_metadata(rows, key, value) ==
    IF MetaIndex(rows, key) # 0
    THEN [rows EXCEPT ![MetaIndex(rows, key)].value = value]
    ELSE Append(rows, [key |-> key, value |-> value])

RECURSIVE EnsureFrom(_, _)
EnsureFrom(rows, i) ==
    IF i > Len(DefaultKeys) THEN rows
    ELSE EnsureFrom(IF get_metadata(rows, DefaultKeys[i]) = None
                    THEN set_metadata(rows, DefaultKeys[i], None)
                    ELSE rows, i + 1)

\* mutant: every default key is reset to null
RECURSIVE EnsureResetFrom(_, _)
EnsureResetFrom(rows, i) ==
    IF i > Len(DefaultKeys) THEN rows
    ELSE EnsureResetFrom(set_metadata(rows, DefaultKeys[i], None), i + 1)

EnsureResets(rows) == EnsureResetFrom(rows, 1)

ensure_default_metadata(rows) == EnsureFrom(rows, 1)

\* Python's `x or default` on an optional string
OrElse(x, default) == IF x = None THEN default ELSE x

PairedNameKey(device_id) ==
    CASE device_id = "device-stub" -> "paired_name:device-stub"
      [] device_id = "dev-1" -> "paired_name:dev-1"
      [] device_id = "dev-2" -> "paired_name:dev-2"
      [] device_id = "dev-3" -> "paired_name:dev-3"
      [] OTHER -> "paired_name:unknown"

\* --------------------------------------------------------- PairedDevice
RowIndex(rows, device_id) ==
    IF \E i \in 1..Len(rows) : rows[i].device_id = device_id
    THEN CHOOSE i \in 1..Len(rows) :
            /\ rows[i].device_id = device_id
            /\ \A j \in 1..(i - 1) : rows[j].device_id # device_id
    ELSE 0

\* mutant: the filter compares the wrong column
AlreadyPairedWrongColumn(rows, target_ip) ==
    \E i \in 1..Len(rows) : rows[i].device_id = target_ip.host

\* db.query(PairedDevice).filter(PairedDevice.ip_address == target_ip).first()
AlreadyPaired(rows, target_ip) ==
    \E i \in 1..Len(rows) : rows[i].ip_address = target_ip

RemoveAt(s, i) == [j \in 1..(Len(s) - 1) |-> IF j < i THEN s[j] ELSE s[j + 1]]

\* mutant: the lookup by device_id is skipped and a row is always added
UpsertPairedInsertOnly(rows, device_id, target_ip, cluster_id, t) ==
    Append(rows, [device_id |-> device_id,
                  ip_address |-> target_ip,
                  role |-> "member",
                  cluster_id |-> cluster_id,
                  shared_secret |-> None,
                  paired_at |-> t,
                  last_seen |-> t])

\* mutant: the row to update is looked up by ip_address
UpsertPairedByAddress(rows, device_id, target_ip, cluster_id, t) ==
    IF \E i \in 1..Len(rows) : rows[i].ip_address = target_ip
    THEN LET i == CHOOSE i \in 1..Len(rows) : rows[i].ip_address = target_ip
         IN [rows EXCEPT ![i] = [@ EXCEPT !.device_id = device_id,
                                          !.role = "member",
                                          !.cluster_id = cluster_id,
                                          !.last_seen = t]]
    ELSE Append(rows, [device_id |-> device_id,
                       ip_address |-> target_ip,
                       role |-> "member",
                       cluster_id |-> cluster_id,
                       shared_secret |-> None,
                       paired_at |-> t,
                       last_seen |-> t])

\* mutant: paired_at is set on every upsert
UpsertPairedResetsPairedAt(rows, device_id, target_ip, cluster_id, t) ==
    LET i == RowIndex(rows, device_id) IN
    IF i # 0
    THEN [rows EXCEPT ![i] = [@ EXCEPT !.ip_address = target_ip,
                                       !.role = "member",
                                       !.cluster_id = cluster_id,
                                       !.last_seen = t,
                                       !.paired_at = t]]
    ELSE Append(rows, [device_id |-> device_id,
                       ip_address |-> target_ip,
                       role |-> "member",
                       cluster_id |-> cluster_id,
                       shared_secret |-> None,
                       paired_at |-> t,
                       last_seen |-> t])

\* the upsert of pair_device_via_manager
UpsertPaired(rows, device_id, target_ip, cluster_id, t) ==
    LET i == RowIndex(rows, device_id) IN
    IF i # 0
    THEN [rows EXCEPT ![i] = [@ EXCEPT !.ip_address = target_ip,
                                       !.role = "member",
                                       !.cluster_id = cluster_id,
                                       !.last_seen = t,
                                       !.paired_at = IF @ = NoTime THEN t ELSE @]]
    ELSE Append(rows, [device_id |-> device_id,
                       ip_address |-> target_ip,
                       role |-> "member",
                       cluster_id |-> cluster_id,
                       shared_secret |-> None,
                       paired_at |-> t,
                       last_seen |-> t])

\* --------------------------------------------------------- PairingToken
NoToken == [iss |-> None, aud |-> None, sub |-> None, cluster_id |-> None,
            jti |-> 0, exp |-> NoTime, target_ip |-> NoAddr,
            target_device_id |-> None, key |-> None]

\* a string that the manager never issued
GarbageToken == [NoToken EXCEPT !.key = "garbage"]

\* jti = str(uuid.uuid4()): a value never produced before
Uuid4(ctr) == ctr + 1

\* mutant: a token for a target that already has an unexpired row is not
\* recorded again
AddPairingTokenDedup(rows, jti, target_device_id, cluster_id, t) ==
    IF \E i \in 1..Len(rows) : /\ rows[i].target_device_id = target_device_id
                                /\ rows[i].expires_at > t
    THEN rows
    ELSE Append(rows, [token |-> jti,
                       source_device_id |-> None,
                       target_device_id |-> target_device_id,
                       cluster_id |-> cluster_id,
                       created_at |-> t,
                       expires_at |-> t + TokenTTL,
                       used |-> FALSE])

\* db.add(PairingToken(...)); db.commit()
AddPairingToken(rows, jti, target_device_id, cluster_id, t) ==
    Append(rows, [token |-> jti,
                  source_device_id |-> None,
                  target_device_id |-> target_device_id,
                  cluster_id |-> cluster_id,
                  created_at |-> t,
                  expires_at |-> t + TokenTTL,
                  used |-> FALSE])

\* jwt.encode(claims, settings.secret_key, algorithm=ALGORITHM)
EncodeToken(jti, cluster_id, target_device_id, target_ip, t) ==
    [iss |-> "manager", aud |-> "device", sub |-> "pairing",
     cluster_id |-> cluster_id, jti |-> jti, exp |-> t + TokenTTL,
     target_ip |-> target_ip, target_device_id |-> target_device_id,
     key |-> "secret_key"]

\* ---------------------------------------------------------- credentials
AccessTokenHours == 8
HourSeconds == 3600

\* a claim the token does not have
Absent == "absent"

\* no Authorization header with the Bearer scheme
NoCreds == [present |-> FALSE, key |-> None, sub |-> Absent, role |-> Absent,
            exp |-> NoTime]

\* a bearer token: key is the key its signature verifies with (None for a
\* string that is no signed token)
Bearer(key, sub, role, exp) ==
    [present |-> TRUE, key |-> key, sub |-> sub, role |-> role, exp |-> exp]

\* create_access_token(subject, role, expires_hours) at time t
create_access_token(subject, role, t) ==
    Bearer("secret_key", subject, role, t + AccessTokenHours * HourSeconds)

\* decode_token raises unless the signature verifies with settings.secret_key
\* and the token has not expired
DecodeRaises(creds, t) == creds.key # "secret_key" \/ creds.exp < t

\* get_current_user: 401 without credentials, for a token that does not
\* decode and for a payload without sub or role; 0 when the payload is returned
get_current_user(creds, t) ==
    IF ~creds.present THEN 401
    ELSE IF DecodeRaises(creds, t) THEN 401
    ELSE IF creds.sub = Absent \/ creds.role = Absent THEN 401
    ELSE 0

\* mutant: any authenticated user passes
RequireAuthenticated(allowed, creds, t) == get_current_user(creds, t)

\* require_role(*allowed): 403 when the role of the user is not allowed
require_role(allowed, creds, t) ==
    IF get_current_user(creds, t) # 0 THEN get_current_user(creds, t)
    ELSE IF creds.role \notin allowed THEN 403
    ELSE 0

\* what a caller may send as credential
Credentials ==
    {NoCreds,
     Bearer(None, Absent, Absent, NoTime),
     Bearer("other-key", "alice", "admin", AccessTokenHours * HourSeconds),
     create_access_token("alice", "admin", 0 - 2 * AccessTokenHours * HourSeconds),
     Bearer("secret_key", Absent, "admin", AccessTokenHours * HourSeconds),
     Bearer("secret_key", "alice", Absent, AccessTokenHours * HourSeconds),
     create_access_token("bob", "monitor", 0),
     create_access_token("alice", "admin", 0),
     create_access_token("root", "owner", 0)}

\* ------------------------------------------------- CertificateAuthority
CaCertPems == <<"ca-cert-1", "ca-cert-2", "ca-cert-3", "ca-cert-4">>
CaKeyPems == <<"ca-key-1", "ca-key-2", "ca-key-3", "ca-key-4">>
CaFingerprints == <<"ca-fp-1", "ca-fp-2", "ca-fp-3", "ca-fp-4">>

\* generate_ca(): the n-th key pair generated by this process
generate_ca(n) == [cert_pem |-> CaCertPems[n], key_pem |-> CaKeyPems[n],
                   fp |-> CaFingerprints[n]]

KeyOfCert(key_pem) ==
    IF \E n \in 1..Len(CaKeyPems) : CaKeyPems[n] = key_pem
    THEN CaCertPems[CHOOSE n \in 1..Len(CaKeyPems) : CaKeyPems[n] = key_pem]
    ELSE None

NoCsr == [csr_pem |-> [cn |-> None, san_device |-> None, san_cluster |-> None],
          device_id |-> None, cluster_id |-> None, name |-> None]

NoBundle == [device_cert_pem |-> [cn |-> None, san_device |-> None,
                                  san_cluster |-> None, issuer |-> None,
                                  not_after |-> NoTime],
             ca_cert_pem |-> None, expires_at |-> NoTime]

CertDays == 60
DaySeconds == 86400

\* metadata after the CA lookup / auto-bootstrap of sign_csr
SignCsrMeta(rows, n) ==
    LET m0 == ensure_default_metadata(rows) IN
    IF get_metadata(m0, "ca_cert_pem") = None \/ get_metadata(m0, "ca_key_pem") = None
    THEN set_metadata(set_metadata(set_metadata(m0,
             "ca_cert_pem", generate_ca(n).cert_pem),
             "ca_key_pem", generate_ca(n).key_pem),
             "ca_fingerprint", generate_ca(n).fp)
    ELSE m0

\* mutant: every signing request generates a CA
SignCsrAlwaysGenerates(rows) == TRUE

\* line 209: not ca_cert_pem or not ca_key_pem
SignCsrGenerates(rows) ==
    LET m0 == ensure_default_metadata(rows) IN
    get_metadata(m0, "ca_cert_pem") = None \/ get_metadata(m0, "ca_key_pem") = None

\* an identifier with a character outside ASCII, as a caller of
\* POST /cluster/sign-csr may send it
NonAsciiId == "dev-umlaut"

\* x509.DNSName(value) raises ValueError unless value is an ASCII string
DNSNameRaises(id) == id = NonAsciiId

\* mutant: the SAN entries are taken from the CSR instead of the payload
SanOfCsr(payload) ==
    [device |-> payload.csr_pem.san_device, cluster |-> payload.csr_pem.san_cluster]

\* lines 236-243: the SAN extension with device:<id> and cluster:<id>; when
\* building it raises, the exception is swallowed and no SAN is added
SanOf(payload) ==
    IF DNSNameRaises(payload.device_id) \/ DNSNameRaises(payload.cluster_id)
    THEN [device |-> None, cluster |-> None]
    ELSE [device |-> payload.device_id, cluster |-> payload.cluster_id]

\* lines 220-250: the CertBundle built with the CA certificate and key read
SignBundle(ca_cert_pem, ca_key_pem, payload, t) ==
    [device_cert_pem |-> [cn |-> payload.csr_pem.cn,
                          san_device |-> SanOf(payload).device,
                          san_cluster |-> SanOf(payload).cluster,
                          issuer |-> KeyOfCert(ca_key_pem),
                          not_after |-> t + CertDays * DaySeconds],
     ca_cert_pem |-> ca_cert_pem,
     expires_at |-> t + CertDays * DaySeconds]

\* the CertBundle sign_csr returns for payload, given the metadata it read
SignCsrBundle(rows, payload, t) ==
    SignBundle(get_metadata(rows, "ca_cert_pem"), get_metadata(rows, "ca_key_pem"),
               payload, t)

\* ------------------------------------------------------ joining node
\* generate_key_and_csr(common_name, device_id, cluster_id)
generate_key_and_csr(common_name, device_id, cluster_id) ==
    [cn |-> common_name, san_device |-> device_id, san_cluster |-> cluster_id]

\* accept_pairing_request on the node at peer: the response body
\* the joining node's own cluster_id and device_name metadata (never set by
\* the pairing flow on a node that has not joined yet)
PeerClusterId == None
PeerDeviceName == None

AcceptResponse(peer) ==
    LET cluster_id == OrElse(PeerClusterId, "cluster-pending")
        device_id == OrElse(peerDeviceId[peer], "device-stub")
    IN [csr_pem |-> generate_key_and_csr("CTHz Node", device_id, cluster_id),
        device_id |-> device_id,
        cluster_id |-> cluster_id,
        name |-> OrElse(PeerDeviceName, "CTHz Node")]

\* what the acceptor did with a presented token (history of issued CSRs)
AcceptEntry(peer, tok) ==
    [peer |-> peer, key |-> tok.key, aud |-> tok.aud, jti |-> tok.jti,
     expired |-> (tok.exp = NoTime \/ now > tok.exp),
     replay |-> \E e \in csrLog : e.key = tok.key /\ e.jti = tok.jti]

\* accept_pairing_request issues a CSR for whatever token is presented
AcceptsToken(peer, tok) == TRUE

\* ------------------------------------------------------- invocations
IdleCall == [pc |-> "idle", target |-> NoAddr, token |-> NoToken,
             device_csr |-> NoCsr, bundle |-> NoBundle, outcome |-> 0,
             trace |-> <<>>]

IdleList == [pc |-> "idle", live |-> FALSE, at |-> NoTime, rows |-> <<>>,
             devices |-> <<>>, tasks |-> <<>>]

NoData == [device_id |-> None, ip_address |-> NoAddr, role |-> None,
           cluster_id |-> None, paired_at |-> NoTime, last_seen |-> NoTime,
           status |-> None, status_color |-> None]

NoGet == [status_code |-> 0, at |-> NoTime, live |-> FALSE, data |-> NoData]

NoReply == [op |-> None, status_code |-> 0]

HeartbeatInterval == 30

NoAck == [status |-> None, node_role |-> None, heartbeat_interval_s |-> 0]

\* no install_cert request in progress on a node.  manager_endpoint: the
\* field of the request (NoAddr when not supplied); sent: heartbeats posted;
\* heartbeat: what became of the heartbeat; req: the jti of the pairing call
\* whose connection the request came on (0: another client)
IdleInst == [pc |-> "idle", manager_endpoint |-> NoAddr, sent |-> 0,
             heartbeat |-> None, status_code |-> 0, ack |-> NoAck, req |-> 0]

\* nothing is fixed about the answers of the nodes
NoNet == <<>>

\* a sign_csr request that has not started
Signers == 1..NumSigners
IdleSign == [pc |-> "idle", payload |-> NoCsr, found |-> None,
             ca_cert_pem |-> None, ca_key_pem |-> None, gen |-> 0,
             bundle |-> NoBundle, status_code |-> 0]

\* device_id metadata of the two joining nodes: unset on both (each reports
\* "device-stub"), or set on the second one
PeerConfigs == {[peer \in Peers |-> None],
                [peer \in Peers |-> IF peer.host = "h2" THEN "dev-1" ELSE None]}

InitCommon ==
    /\ caCount = 0
    /\ uuidCtr = 0
    /\ call = [p \in Callers |-> IdleCall]
    /\ issued = <<>>
    /\ pairsStarted = 0
    /\ csrLog = {}
    /\ presented = 0
    /\ reply = NoReply
    /\ lst = IdleList
    /\ getRes = NoGet
    /\ log = <<>>
    /\ sig = [s \in Signers |-> IdleSign]
    /\ net = NoNet
    /\ inst = [peer \in Peers |-> IdleInst]
    /\ users = 0

\* state after init_db() on a fresh database: all three tables empty
Init ==
    /\ now = 0
    /\ paired_devices = <<>>
    /\ pairing_tokens = <<>>
    /\ device_metadata = <<>>
    /\ peerDeviceId \in PeerConfigs
    /\ InitCommon

\* ------------------------------------------------------------- clock
Tick ==
    /\ now < MaxTicks * TickSeconds
    /\ now' = now + TickSeconds
    /\ UNCHANGED <<dbVars, pairVars, peerDeviceId, users, reply, adminVars, listVars>>

\* ---------------------------------------------- POST /cluster/pairing-token
\* create_pairing_token: the results of one issuance
IssueMeta(rows) == ensure_default_metadata(rows)
IssueClusterId(rows) == OrElse(get_metadata(IssueMeta(rows), "cluster_id"), "cluster-stub")

IssueResponse(jti, target_device_id, target_ip) ==
    [token |-> EncodeToken(jti, IssueClusterId(device_metadata),
                           target_device_id, target_ip, now),
     exp |-> now + TokenTTL,
     cluster_id |-> IssueClusterId(device_metadata),
     jti |-> jti]

CreatePairingToken(target_device_id, target_ip) ==
    /\ uuidCtr' = Uuid4(uuidCtr)
    /\ device_metadata' = IssueMeta(device_metadata)
    /\ pairing_tokens' = AddPairingToken(pairing_tokens, Uuid4(uuidCtr),
                            target_device_id, IssueClusterId(device_metadata), now)
    /\ issued' = Append(issued, IssueResponse(Uuid4(uuidCtr), target_device_id, target_ip))

\* an administrator calls the endpoint directly
IssueToken(target_device_id, target_ip) ==
    /\ Len(issued) < MaxTokens
    /\ CreatePairingToken(target_device_id, target_ip)
    /\ UNCHANGED <<now, paired_devices, caCount, call, pairsStarted,
                   peerDeviceId, users, csrLog, presented, reply, adminVars, listVars>>

\* ------------------------------------------------------ POST /cluster/pair
Step(p, name) == [call EXCEPT ![p].trace = Append(@, name)]

Finish(c, p, code) == [c EXCEPT ![p].pc = "done", ![p].outcome = code]

\* lines 112-124: target_ip required, then the already-paired check
PairCall(p, target_ip) ==
    /\ call[p].pc = "idle"
    /\ pairsStarted < MaxPairs
    /\ pairsStarted' = pairsStarted + 1
    /\ call' = IF target_ip = NoAddr
               THEN Finish([call EXCEPT ![p].target = target_ip], p, 400)
               ELSE IF AlreadyPaired(paired_devices, target_ip)
               THEN Finish([Step(p, "check") EXCEPT ![p].target = target_ip], p, 409)
               ELSE [Step(p, "check") EXCEPT ![p].target = target_ip, ![p].pc = "issue"]
    /\ UNCHANGED <<now, dbVars, caCount, uuidCtr, issued, peerDeviceId, users,
                   csrLog, presented, reply, adminVars, listVars>>

\* lines 126-135: create the token and post it to the candidate
PairIssue(p) ==
    /\ call[p].pc = "issue"
    /\ CreatePairingToken(None, call[p].target)
    /\ call' = [Step(p, "issue") EXCEPT
                   ![p].pc = "csr_req",
                   ![p].token = IssueResponse(Uuid4(uuidCtr), None, call[p].target).token,
                   ![p].trace = Append(@, "csr")]
    /\ UNCHANGED <<now, paired_devices, caCount, pairsStarted, peerDeviceId, users,
                   csrLog, presented, reply, adminVars, listVars>>

\* the candidate handles /pair/request and its answer reaches the manager
CsrOk(p) ==
    /\ call[p].pc = "csr_req"
    /\ AcceptsToken(DeviceBase(call[p].target), call[p].token)
    /\ csrLog' = csrLog \cup {AcceptEntry(DeviceBase(call[p].target), call[p].token)}
    /\ call' = [call EXCEPT ![p].pc = "sign",
                            ![p].device_csr = AcceptResponse(DeviceBase(call[p].target))]
    /\ UNCHANGED <<now, dbVars, caCount, uuidCtr, issued, pairsStarted,
                   peerDeviceId, users, presented, reply, adminVars, listVars>>

\* mutant: the failure is swallowed and the handshake goes on without a CSR
CsrFailSwallowed(p) ==
    /\ call[p].pc = "csr_req"
    /\ call' = [call EXCEPT ![p].pc = "sign"]
    /\ UNCHANGED <<now, dbVars, caCount, uuidCtr, issued, pairsStarted,
                   peerDeviceId, users, csrLog, presented, reply, adminVars, listVars>>

\* lines 138-139: timeout, transport error or error status of the CSR request:
\* the manager gets no CSR
CsrFail(p) ==
    /\ call[p].pc = "csr_req"
    /\ call' = Finish(call, p, 408)
    /\ UNCHANGED <<now, dbVars, caCount, uuidCtr, issued, pairsStarted,
                   peerDeviceId, users, csrLog, presented, reply, adminVars, listVars>>

\* lines 140-154: sign the CSR and post the bundle to the candidate
PairSign(p) ==
    /\ call[p].pc = "sign"
    /\ device_metadata' = SignCsrMeta(device_metadata, caCount + 1)
    /\ caCount' = IF SignCsrGenerates(device_metadata) THEN caCount + 1 ELSE caCount
    /\ call' = [Step(p, "sign") EXCEPT
                   ![p].pc = "install_req",
                   ![p].bundle = SignCsrBundle(SignCsrMeta(device_metadata, caCount + 1),
                                               call[p].device_csr, now),
                   ![p].trace = Append(@, "install")]
    /\ UNCHANGED <<now, paired_devices, pairing_tokens, uuidCtr, issued,
                   pairsStarted, peerDeviceId, users, csrLog, presented, reply, adminVars, listVars>>

\* mutant: a heartbeat for an unknown device_id registers it
HeartbeatRowsUpserts(rows, device_id, time) ==
    LET i == RowIndex(rows, device_id) IN
    IF i # 0 THEN [rows EXCEPT ![i].last_seen = time]
    ELSE Append(rows, [device_id |-> device_id, ip_address |-> NoAddr,
                       role |-> "member", cluster_id |-> None,
                       shared_secret |-> None, paired_at |-> time,
                       last_seen |-> time])

\* the heartbeat handler of the manager
HeartbeatRows(rows, device_id, time) ==
    LET i == RowIndex(rows, device_id) IN
    IF i # 0 THEN [rows EXCEPT ![i].last_seen = time] ELSE rows

\* the device_id install_cert puts into its heartbeat
InstallHeartbeatDeviceId(peer) == "device-stub"

\* install_cert on the candidate (manager_endpoint is always set by the
\* manager): it posts one heartbeat, swallows its failure and acknowledges.
\* hb: the heartbeat reached the heartbeat handler of the manager.
InstallHeartbeat(rows, peer, hb, time) ==
    IF hb THEN HeartbeatRows(rows, InstallHeartbeatDeviceId(peer), time) ELSE rows

\* the candidate ran install_cert and its acknowledgement reaches the manager
InstallOk(p, hb) ==
    /\ call[p].pc = "install_req"
    /\ paired_devices' = InstallHeartbeat(paired_devices, DeviceBase(call[p].target), hb, now)
    /\ call' = [call EXCEPT ![p].pc = "upsert"]
    /\ UNCHANGED <<now, pairing_tokens, device_metadata, caCount, uuidCtr, issued,
                   pairsStarted, peerDeviceId, users, csrLog, presented, reply, adminVars, listVars>>

\* mutant: the install failure is reported like the CSR failure
InstallFailAs408(p) ==
    /\ call[p].pc = "install_req"
    /\ call' = Finish(call, p, 408)
    /\ UNCHANGED <<now, dbVars, caCount, uuidCtr, issued, pairsStarted,
                   peerDeviceId, users, csrLog, presented, reply, adminVars, listVars>>

\* lines 157-158: timeout, transport error or error status of the install
\* request (a heartbeat the candidate still gets through is a Heartbeat step)
InstallFail(p) ==
    /\ call[p].pc = "install_req"
    /\ call' = Finish(call, p, 500)
    /\ UNCHANGED <<now, dbVars, caCount, uuidCtr, issued, pairsStarted,
                   peerDeviceId, users, csrLog, presented, reply, adminVars, listVars>>

\* lines 159-190: metadata after the upsert block
UpsertMeta(rows, device_csr) ==
    IF device_csr.name # None
    THEN set_metadata(ensure_default_metadata(rows),
                      PairedNameKey(device_csr.device_id), device_csr.name)
    ELSE ensure_default_metadata(rows)

PairUpsert(p) ==
    /\ call[p].pc = "upsert"
    /\ paired_devices' = UpsertPaired(paired_devices, call[p].device_csr.device_id,
                            call[p].target,
                            get_metadata(ensure_default_metadata(device_metadata), "cluster_id"),
                            now)
    /\ device_metadata' = UpsertMeta(device_metadata, call[p].device_csr)
    /\ call' = Finish(Step(p, "upsert"), p, 200)
    /\ UNCHANGED <<now, pairing_tokens, caCount, uuidCtr, issued, pairsStarted,
                   peerDeviceId, users, csrLog, presented, reply, adminVars, listVars>>

\* the response is sent; the caller may invoke pairing again
PairReturn(p) ==
    /\ call[p].pc = "done"
    /\ call' = [call EXCEPT ![p] = IdleCall]
    /\ UNCHANGED <<now, dbVars, caCount, uuidCtr, issued, pairsStarted,
                   peerDeviceId, users, csrLog, presented, reply, adminVars, listVars>>

\* ------------------------------------------------- POST /cluster/heartbeat
HeartbeatIds == {"device-stub", "dev-1", "ghost"}

Heartbeat(device_id, time) ==
    /\ paired_devices' = HeartbeatRows(paired_devices, device_id, time)
    /\ UNCHANGED <<now, pairing_tokens, device_metadata, pairVars, peerDeviceId, users,
                   reply, adminVars, listVars>>

\* ------------------------------------------- DELETE /cluster/devices/{id}
\* mutant: a revoke of a registered identifier deletes the first row
RevokeRowsFirst(rows, device_id) ==
    IF RowIndex(rows, device_id) # 0 THEN Tail(rows) ELSE rows

RevokeRows(rows, device_id) ==
    IF RowIndex(rows, device_id) # 0
    THEN RemoveAt(rows, RowIndex(rows, device_id))
    ELSE rows

RevokeDevice(device_id) ==
    /\ paired_devices' = RevokeRows(paired_devices, device_id)
    /\ reply' = [op |-> "revoke",
                 status_code |-> IF RowIndex(paired_devices, device_id) # 0
                                 THEN 200 ELSE 404]
    /\ UNCHANGED <<now, pairing_tokens, device_metadata, pairVars, peerDeviceId, users,
                   sig, net, inst, listVars>>

\* what a client keeps of a response: status, and cluster_id and CA
\* fingerprint where the body has them
LogEntry(op, arg, status_code, cluster_id, fp) ==
    [op |-> op, arg |-> arg, status_code |-> status_code,
     cluster_id |-> cluster_id, fp |-> fp]

\* a client calls DELETE /cluster/devices/{device_id} and notes the response
ClientRevoke(device_id) ==
    /\ Len(log) < MaxCalls
    /\ RevokeDevice(device_id)
    /\ log' = Append(log, LogEntry("revoke", device_id, reply'.status_code, None, None))

\* HeartbeatRequest.time: the field has default_factory utcnow, so a body
\* without it is given the time of parsing (NoTime: the body has no time)
HeartbeatRequestTime(time, t) == IF time = NoTime THEN t ELSE time

\* a node posts a heartbeat body and gets the answer {"ok": true}
PostHeartbeat(device_id, time) ==
    /\ Len(log) < MaxCalls
    /\ paired_devices' = HeartbeatRows(paired_devices, device_id,
                                       HeartbeatRequestTime(time, now))
    /\ reply' = [op |-> "heartbeat", status_code |-> 200,
                 req |-> [device_id |-> device_id, time |-> time]]
    /\ log' = Append(log, LogEntry("heartbeat", device_id, 200, None, None))
    /\ UNCHANGED <<now, pairing_tokens, device_metadata, pairVars, peerDeviceId, users,
                   sig, net, inst, listVars>>

\* ------------------------------------------- POST /cluster/bootstrap-ca
\* Python's truth value of an optional string
Falsy(x) == x = None \/ x = ""

\* f"cluster-{int(datetime.utcnow().timestamp())}"
ClusterIdAt(t) == "cluster-" \o ToString(t)

\* lines 442-447: defaults, then the cluster_id is created when missing
BootstrapClusterMeta(rows, t) ==
    LET m0 == ensure_default_metadata(rows) IN
    IF Falsy(get_metadata(m0, "cluster_id"))
    THEN set_metadata(m0, "cluster_id", ClusterIdAt(t))
    ELSE m0

\* line 452: the CA is generated unless certificate, key and fingerprint
\* are all stored
BootstrapGenerates(rows) ==
    LET m0 == ensure_default_metadata(rows) IN
    ~(/\ ~Falsy(get_metadata(m0, "ca_cert_pem"))
      /\ ~Falsy(get_metadata(m0, "ca_key_pem"))
      /\ ~Falsy(get_metadata(m0, "ca_fingerprint")))

\* mutant: every bootstrap call generates and stores a new CA
BootstrapMetaRegenerates(rows, t, n) ==
    set_metadata(set_metadata(set_metadata(BootstrapClusterMeta(rows, t),
        "ca_cert_pem", generate_ca(n).cert_pem),
        "ca_key_pem", generate_ca(n).key_pem),
        "ca_fingerprint", generate_ca(n).fp)

\* lines 442-457: the metadata store after bootstrap_ca
BootstrapMeta(rows, t, n) ==
    IF BootstrapGenerates(rows)
    THEN set_metadata(set_metadata(set_metadata(BootstrapClusterMeta(rows, t),
             "ca_cert_pem", generate_ca(n).cert_pem),
             "ca_key_pem", generate_ca(n).key_pem),
             "ca_fingerprint", generate_ca(n).fp)
    ELSE BootstrapClusterMeta(rows, t)

\* lines 459-463: the response body
BootstrapResponse(rows, t, n) ==
    [cluster_id |-> get_metadata(BootstrapMeta(rows, t, n), "cluster_id"),
     ca_cert_pem |-> get_metadata(BootstrapMeta(rows, t, n), "ca_cert_pem"),
     ca_fingerprint |-> get_metadata(BootstrapMeta(rows, t, n), "ca_fingerprint")]

\* an administrator calls the endpoint and notes the response
BootstrapCa ==
    /\ Len(log) < MaxCalls
    /\ caCount < Len(CaCertPems)
    /\ device_metadata' = BootstrapMeta(device_metadata, now, caCount + 1)
    /\ caCount' = IF BootstrapGenerates(device_metadata) THEN caCount + 1 ELSE caCount
    /\ log' = Append(log, LogEntry("bootstrap", None, 200,
                   BootstrapResponse(device_metadata, now, caCount + 1).cluster_id,
                   BootstrapResponse(device_metadata, now, caCount + 1).ca_fingerprint))
    /\ UNCHANGED <<now, paired_devices, pairing_tokens, uuidCtr, call, issued,
                   pairsStarted, peerDeviceId, users, csrLog, presented, reply, sig, net, inst,
                   listVars>>

\* ------------------------------------ the role check of the endpoints
\* create_pairing_token, pair_device_via_manager and bootstrap_ca depend on
\* require_role("owner", "admin"); the dependency is resolved before the
\* handler body runs
AdminRoles == {"owner", "admin"}
PrivilegedOps == {"pairing-token", "pair", "bootstrap-ca"}

\* the dependency raises: the response is the error, the body never runs
RejectRequest(op, creds) ==
    /\ require_role(AdminRoles, creds, now) # 0
    /\ reply' = [op |-> op, status_code |-> require_role(AdminRoles, creds, now),
                 creds |-> creds]
    /\ UNCHANGED <<now, dbVars, pairVars, peerDeviceId, users, adminVars, listVars>>

RequestIssue(creds, target_device_id, target_ip) ==
    /\ require_role(AdminRoles, creds, now) = 0
    /\ IssueToken(target_device_id, target_ip)

RequestPair(creds, p, target_ip) ==
    /\ require_role(AdminRoles, creds, now) = 0
    /\ PairCall(p, target_ip)

RequestBootstrap(creds) ==
    /\ require_role(AdminRoles, creds, now) = 0
    /\ BootstrapCa

\* ----------------------------------------------- POST /cluster/sign-csr
\* sign_csr called on its own (the endpoint takes no credential), one
\* database statement per step.  Two requests interleave at these steps
\* when two server processes share the database; inside one event loop
\* the handler has no suspension point and PairSign is the whole of it.
SignsOpen == Cardinality({s \in Signers : sig[s].pc # "idle"})

SignUnchanged ==
    UNCHANGED <<now, paired_devices, pairing_tokens, uuidCtr, call, issued,
                pairsStarted, peerDeviceId, users, csrLog, presented, reply, net, inst, listVars>>

\* lines 205-209: defaults, then the CA certificate and key are read
SignStart(s, payload) ==
    /\ sig[s].pc = "idle"
    /\ Len(log) + SignsOpen < MaxCalls
    /\ device_metadata' = ensure_default_metadata(device_metadata)
    /\ sig' = [sig EXCEPT ![s] =
                  [IdleSign EXCEPT
                     !.pc = IF SignCsrGenerates(device_metadata) THEN "generate" ELSE "build",
                     !.payload = payload,
                     !.found = IF SignCsrGenerates(device_metadata) THEN "no-ca" ELSE "ca",
                     !.ca_cert_pem = get_metadata(device_metadata', "ca_cert_pem"),
                     !.ca_key_pem = get_metadata(device_metadata', "ca_key_pem")]]
    /\ UNCHANGED <<caCount, log>>
    /\ SignUnchanged

\* line 212: generate_ca()
SignGenerate(s) ==
    /\ sig[s].pc = "generate"
    /\ caCount < Len(CaCertPems)
    /\ caCount' = caCount + 1
    /\ sig' = [sig EXCEPT ![s].gen = caCount + 1, ![s].pc = "set_cert"]
    /\ UNCHANGED <<device_metadata, log>>
    /\ SignUnchanged

\* mutant: the generated CA is stored only where none is stored yet
SignStoreOnce(rows, key, value) ==
    IF get_metadata(rows, key) = None THEN set_metadata(rows, key, value) ELSE rows

\* lines 213-215: one of the three set_metadata calls, each with its commit
SignStore(rows, key, value) == set_metadata(rows, key, value)

SignSet(s) ==
    /\ sig[s].pc \in {"set_cert", "set_key", "set_fp"}
    /\ device_metadata' =
          CASE sig[s].pc = "set_cert" ->
                 SignStore(device_metadata, "ca_cert_pem", generate_ca(sig[s].gen).cert_pem)
            [] sig[s].pc = "set_key" ->
                 SignStore(device_metadata, "ca_key_pem", generate_ca(sig[s].gen).key_pem)
            [] OTHER ->
                 SignStore(device_metadata, "ca_fingerprint", generate_ca(sig[s].gen).fp)
    /\ sig' = [sig EXCEPT ![s].pc = CASE sig[s].pc = "set_cert" -> "set_key"
                                      [] sig[s].pc = "set_key" -> "set_fp"
                                      [] OTHER -> "reread"]
    /\ UNCHANGED <<caCount, log>>
    /\ SignUnchanged

\* lines 216-217: the certificate and key are read back from the store
SignReread(s) ==
    /\ sig[s].pc = "reread"
    /\ sig' = [sig EXCEPT ![s].ca_cert_pem = get_metadata(device_metadata, "ca_cert_pem"),
                          ![s].ca_key_pem = get_metadata(device_metadata, "ca_key_pem"),
                          ![s].pc = "build"]
    /\ UNCHANGED <<device_metadata, caCount, log>>
    /\ SignUnchanged

\* lines 218-219: the statement the request is at raises (generate_ca, a
\* set_metadata commit or the read back): 409
SignFail(s) ==
    /\ sig[s].pc \in {"generate", "set_cert", "set_key", "set_fp", "reread"}
    /\ sig' = [sig EXCEPT ![s].pc = "done", ![s].status_code = 409]
    /\ UNCHANGED <<device_metadata, caCount, log>>
    /\ SignUnchanged

\* lines 220-250: the certificate is built and signed with the key read
SignBuild(s) ==
    /\ sig[s].pc = "build"
    /\ sig' = [sig EXCEPT ![s].bundle = SignBundle(sig[s].ca_cert_pem, sig[s].ca_key_pem,
                                                   sig[s].payload, now),
                          ![s].status_code = 200,
                          ![s].pc = "done"]
    /\ UNCHANGED <<device_metadata, caCount, log>>
    /\ SignUnchanged

\* the response is sent; the client notes it with the fingerprint stored
SignReturn(s) ==
    /\ sig[s].pc = "done"
    /\ log' = Append(log, LogEntry("sign", sig[s].found, sig[s].status_code, None,
                                    get_metadata(device_metadata, "ca_fingerprint")))
    /\ sig' = [sig EXCEPT ![s].pc = "idle"]
    /\ UNCHANGED <<device_metadata, caCount>>
    /\ SignUnchanged

\* ------------------------------- POST /devices/pair/install-cert (peer)
\* the acknowledgement of install_cert (line 297)
InstallAck == [status |-> "installed", node_role |-> "member",
               heartbeat_interval_s |-> HeartbeatInterval]

InstallUnchanged ==
    UNCHANGED <<now, pairing_tokens, device_metadata, pairVars, peerDeviceId, users,
                reply, log, sig, net, listVars>>

\* lines 278-283: without manager_endpoint the handler acknowledges at once,
\* otherwise it posts one heartbeat and awaits the answer
InstallBegin(peer, manager_endpoint, req) ==
    /\ inst[peer].pc = "idle"
    /\ inst' = [inst EXCEPT ![peer] =
                  IF manager_endpoint = NoAddr
                  THEN [IdleInst EXCEPT !.pc = "done", !.heartbeat = "none",
                                        !.status_code = 200, !.ack = InstallAck,
                                        !.req = req]
                  ELSE [IdleInst EXCEPT !.pc = "heartbeat", !.sent = 1,
                                        !.manager_endpoint = manager_endpoint,
                                        !.req = req]]
    /\ UNCHANGED paired_devices
    /\ InstallUnchanged

\* a client other than a pairing call posts the request
InstallCert(peer, manager_endpoint) == InstallBegin(peer, manager_endpoint, 0)

\* lines 284-293, 297: the manager handled the heartbeat and its answer
\* (whatever its status, there is no raise_for_status) reached the node
InstallHeartbeatOk(peer) ==
    /\ inst[peer].pc = "heartbeat"
    /\ inst[peer].manager_endpoint = ManagerBase
    /\ paired_devices' = HeartbeatRows(paired_devices, InstallHeartbeatDeviceId(peer), now)
    /\ inst' = [inst EXCEPT ![peer].pc = "done", ![peer].heartbeat = "delivered",
                            ![peer].status_code = 200, ![peer].ack = InstallAck]
    /\ InstallUnchanged

\* mutant: a heartbeat failure fails the install
InstallHeartbeatFailRaises(peer, applied) ==
    /\ inst[peer].pc = "heartbeat"
    /\ applied => inst[peer].manager_endpoint = ManagerBase
    /\ paired_devices' = InstallHeartbeat(paired_devices, peer, applied, now)
    /\ inst' = [inst EXCEPT ![peer].pc = "done", ![peer].heartbeat = "failed",
                            ![peer].status_code = 500]
    /\ InstallUnchanged

\* lines 294-297: transport failure or the 10 s timeout of the heartbeat;
\* the exception is swallowed.  applied: the request had reached the
\* heartbeat handler of the manager and only the answer was lost
InstallHeartbeatFail(peer, applied) ==
    /\ inst[peer].pc = "heartbeat"
    /\ applied => inst[peer].manager_endpoint = ManagerBase
    /\ paired_devices' = InstallHeartbeat(paired_devices, peer, applied, now)
    /\ inst' = [inst EXCEPT ![peer].pc = "done", ![peer].heartbeat = "failed",
                            ![peer].status_code = 200, ![peer].ack = InstallAck]
    /\ InstallUnchanged

\* the response is sent
InstallReturn(peer) ==
    /\ inst[peer].pc = "done"
    /\ inst' = [inst EXCEPT ![peer] = IdleInst]
    /\ UNCHANGED paired_devices
    /\ InstallUnchanged

\* -------------------------- the install step of the handshake, refined
\* line 141 when sign_csr raises: no CA is stored and the auto-bootstrap
\* fails after k of its three writes (k = 3: the read back fails); the
\* HTTPException 409 of sign_csr ends the pairing call
PairSignFail(p, k) ==
    /\ call[p].pc = "sign"
    /\ SignCsrGenerates(device_metadata)
    /\ caCount < Len(CaCertPems)
    /\ caCount' = caCount + 1
    /\ device_metadata' =
          LET m0 == ensure_default_metadata(device_metadata)
              m1 == SignStore(m0, "ca_cert_pem", generate_ca(caCount + 1).cert_pem)
              m2 == SignStore(m1, "ca_key_pem", generate_ca(caCount + 1).key_pem)
              m3 == SignStore(m2, "ca_fingerprint", generate_ca(caCount + 1).fp)
          IN CASE k = 0 -> m0 [] k = 1 -> m1 [] k = 2 -> m2 [] OTHER -> m3
    /\ call' = Finish(Step(p, "sign"), p, 409)
    /\ UNCHANGED <<now, paired_devices, pairing_tokens, uuidCtr, issued,
                   pairsStarted, peerDeviceId, users, csrLog, presented, reply, adminVars, listVars>>

\* the install request posted at lines 144-154 reaches the candidate, whose
\* install_cert starts with the manager's base URL as manager_endpoint
PairInstallDeliver(p) ==
    /\ call[p].pc = "install_req"
    /\ \A peer \in Peers : inst[peer].req # call[p].token.jti
    /\ InstallBegin(DeviceBase(call[p].target), ManagerBase, call[p].token.jti)

\* mutant: the answer of the candidate is not awaited
PairInstallNoWait(p) ==
    /\ call[p].pc = "install_req"
    /\ call' = [call EXCEPT ![p].pc = "upsert"]
    /\ UNCHANGED <<now, dbVars, caCount, uuidCtr, issued, pairsStarted,
                   peerDeviceId, users, csrLog, presented, reply, adminVars, listVars>>

\* mutant: on the candidate's answer the install request is posted again
PairInstallResends(p) ==
    /\ call[p].pc = "install_req"
    /\ inst[DeviceBase(call[p].target)].pc = "done"
    /\ inst[DeviceBase(call[p].target)].req = call[p].token.jti
    /\ inst' = [inst EXCEPT ![DeviceBase(call[p].target)] = IdleInst]
    /\ UNCHANGED <<now, dbVars, caCount, uuidCtr, call, issued, pairsStarted,
                   peerDeviceId, users, csrLog, presented, reply, log, sig, net, listVars>>

\* lines 155-156: the acknowledgement of the candidate reaches the manager
PairInstallAck(p) ==
    /\ call[p].pc = "install_req"
    /\ inst[DeviceBase(call[p].target)].pc = "done"
    /\ inst[DeviceBase(call[p].target)].req = call[p].token.jti
    /\ call' = [call EXCEPT ![p].pc = "upsert"]
    /\ inst' = [inst EXCEPT ![DeviceBase(call[p].target)] = IdleInst]
    /\ UNCHANGED <<now, dbVars, caCount, uuidCtr, issued, pairsStarted,
                   peerDeviceId, users, csrLog, presented, reply, log, sig, net, listVars>>

\* the candidate's answer goes to a manager that no longer waits for it
InstallReturnLate(peer) ==
    /\ \A p \in Callers :
          ~(call[p].pc = "install_req" /\ inst[peer].req = call[p].token.jti)
    /\ InstallReturn(peer)

\* --------------------------------------- POST /devices/pair/request (peer)
\* anybody who can reach the node presents a token: one the manager issued
\* or a string it never issued
PresentToken(peer, tok) ==
    /\ presented < MaxPresented
    /\ presented' = presented + 1
    /\ AcceptsToken(peer, tok)
    /\ csrLog' = csrLog \cup {AcceptEntry(peer, tok)}
    /\ UNCHANGED <<now, dbVars, caCount, uuidCtr, call, issued, pairsStarted,
                   peerDeviceId, users, reply, adminVars, listVars>>

PresentableTokens == {issued[i].token : i \in 1..Len(issued)} \cup {GarbageToken}

\* ---------------------------------------------------- GET /cluster/devices
\* mutant: the online threshold is inclusive
ListComputedInclusive(t, last_seen) ==
    IF last_seen = NoTime THEN "offline"
    ELSE IF t - last_seen <= OnlineBelow THEN "online"
    ELSE IF t - last_seen < WarningBelow THEN "warning"
    ELSE "offline"

\* lines 283-286: the status list_cluster_devices derives for a row
ListComputed(t, last_seen) ==
    IF last_seen = NoTime THEN "offline"
    ELSE IF t - last_seen < OnlineBelow THEN "online"
    ELSE IF t - last_seen < WarningBelow THEN "warning"
    ELSE "offline"

StatusColor(status) ==
    IF status = "online" THEN "green"
    ELSE IF status = "warning" THEN "yellow" ELSE "red"

\* lines 289-300: the summary of one stored row
RowSummary(row, meta, t) ==
    [device_id |-> row.device_id,
     ip_address |-> row.ip_address,
     role |-> row.role,
     cluster_id |-> row.cluster_id,
     paired_at |-> row.paired_at,
     last_seen |-> row.last_seen,
     status |-> ListComputed(t, row.last_seen),
     status_color |-> StatusColor(ListComputed(t, row.last_seen)),
     display_name |-> OrElse(get_metadata(meta, PairedNameKey(row.device_id)),
                             row.device_id)]

\* lines 305-321: the virtual entry of the manager itself
ManagerEntry(meta, t) ==
    [device_id |-> OrElse(get_metadata(meta, "device_id"), "manager"),
     ip_address |-> ManagerBase,
     role |-> "manager",
     cluster_id |-> get_metadata(meta, "cluster_id"),
     paired_at |-> NoTime,
     last_seen |-> t,
     status |-> "online",
     status_color |-> "green",
     display_name |-> OrElse(get_metadata(meta, "device_name"),
                             OrElse(get_metadata(meta, "device_id"), "manager"))]

\* mutant: the virtual entry is appended instead of inserted at index 0
ListDevicesManagerLast(rows, meta, t) ==
    [i \in 1..Len(rows) |-> RowSummary(rows[i], meta, t)]
        \o <<ManagerEntry(ensure_default_metadata(meta), t)>>

\* lines 277-321: devices as built before any probe
ListDevices(rows, meta, t) ==
    <<ManagerEntry(ensure_default_metadata(meta), t)>>
        \o [i \in 1..Len(rows) |-> RowSummary(rows[i], meta, t)]

\* lines 331-333: probe_one returns at once for an entry without address
ProbeStart(device) == IF device.ip_address = NoAddr THEN "done" ELSE "health"

ListCall(live) ==
    /\ lst.pc = "idle"
    /\ device_metadata' = ensure_default_metadata(device_metadata)
    /\ lst' = [pc |-> IF live THEN "probing" ELSE "done",
               live |-> live,
               at |-> now,
               rows |-> paired_devices,
               devices |-> ListDevices(paired_devices, device_metadata, now),
               tasks |-> IF live
                         THEN [i \in 1..(Len(paired_devices) + 1) |->
                                  ProbeStart(ListDevices(paired_devices, device_metadata, now)[i])]
                         ELSE <<>>]
    /\ UNCHANGED <<now, paired_devices, pairing_tokens, pairVars, peerDeviceId, users,
                   reply, adminVars, getRes>>

\* mutant: a successful probe is persisted as last_seen
ProbeRowsPersist(rows, device, alive, t) ==
    IF alive THEN HeartbeatRows(rows, device.device_id, t) ELSE rows

\* lines 338-361: what a probe writes to paired_devices (nothing)
ProbeRows(rows, device, alive, t) == rows

MarkOnline(device) == [device EXCEPT !.status = "online", !.status_color = "green"]

\* mutant: a probe that raised marks the entry offline
ProbeFailedOffline(device) == [device EXCEPT !.status = "offline", !.status_color = "red"]

\* lines 359-361: the exception is swallowed, the entry keeps its status
ProbeFailed(device) == device

HealthResults == {"200", "503", "error"}
InfoResults == {"200", "401", "404", "error"}
InfoNames == {None, "Lab Node"}

\* mutant: a probe that raises ends the task group, cancelling the others
ProbeHealthCancels(i, r) ==
    /\ lst.pc = "probing"
    /\ i \in 1..Len(lst.tasks)
    /\ lst.tasks[i] = "health"
    /\ lst' = IF r = "200"
              THEN [lst EXCEPT !.devices[i] = MarkOnline(@), !.tasks[i] = "done"]
              ELSE IF r = "error"
              THEN [lst EXCEPT !.tasks = [j \in 1..Len(lst.tasks) |-> "done"]]
              ELSE [lst EXCEPT !.tasks[i] = "info"]
    /\ UNCHANGED <<now, dbVars, pairVars, peerDeviceId, users, reply, adminVars, getRes>>

\* lines 341-345: the answer (or failure) of GET /healthz for entry i
ProbeHealth(i, r) ==
    /\ lst.pc = "probing"
    /\ i \in 1..Len(lst.tasks)
    /\ lst.tasks[i] = "health"
    /\ lst' = IF r = "200"
              THEN [lst EXCEPT !.devices[i] = MarkOnline(@), !.tasks[i] = "done"]
              ELSE IF r = "error"
              THEN [lst EXCEPT !.devices[i] = ProbeFailed(@), !.tasks[i] = "done"]
              ELSE [lst EXCEPT !.tasks[i] = "info"]
    /\ paired_devices' = ProbeRows(paired_devices, lst.devices[i], r = "200", now)
    /\ UNCHANGED <<now, pairing_tokens, device_metadata, pairVars, peerDeviceId, users,
                   reply, adminVars, getRes>>

\* lines 347-361: the answer (or failure) of GET /api/devices/info for entry i
ProbeInfo(i, r, name) ==
    /\ lst.pc = "probing"
    /\ i \in 1..Len(lst.tasks)
    /\ lst.tasks[i] = "info"
    /\ name # None => r = "200"
    /\ lst' = IF r \in {"200", "401"}
              THEN [lst EXCEPT !.devices[i] =
                        [MarkOnline(@) EXCEPT !.display_name =
                            IF name # None THEN name ELSE @],
                        !.tasks[i] = "done"]
              ELSE IF r = "error"
              THEN [lst EXCEPT !.devices[i] = ProbeFailed(@), !.tasks[i] = "done"]
              ELSE [lst EXCEPT !.tasks[i] = "done"]
    /\ paired_devices' = ProbeRows(paired_devices, lst.devices[i], r \in {"200", "401"}, now)
    /\ UNCHANGED <<now, pairing_tokens, device_metadata, pairVars, peerDeviceId, users,
                   reply, adminVars, getRes>>

\* lines 364-368: the task group is left when every probe has ended
ListReturn ==
    /\ lst.pc = "probing"
    /\ \A i \in 1..Len(lst.tasks) : lst.tasks[i] = "done"
    /\ lst' = [lst EXCEPT !.pc = "done"]
    /\ UNCHANGED <<now, dbVars, pairVars, peerDeviceId, users, reply, adminVars, getRes>>

\* the response is sent
ListClose ==
    /\ lst.pc = "done"
    /\ lst' = IdleList
    /\ UNCHANGED <<now, dbVars, pairVars, peerDeviceId, users, reply, adminVars, getRes>>

\* ----------------------------------------------- GET /cluster/devices/{id}
\* lines 392-395: the status get_cluster_device derives for a row
GetComputed(t, last_seen) ==
    IF last_seen = NoTime THEN "offline"
    ELSE IF t - last_seen < OnlineBelow THEN "online"
    ELSE IF t - last_seen < WarningBelow THEN "warning"
    ELSE "offline"

\* lines 396-405
GetData(row, t) ==
    [device_id |-> row.device_id,
     ip_address |-> row.ip_address,
     role |-> row.role,
     cluster_id |-> row.cluster_id,
     paired_at |-> row.paired_at,
     last_seen |-> row.last_seen,
     status |-> GetComputed(t, row.last_seen),
     status_color |-> StatusColor(GetComputed(t, row.last_seen))]

\* lines 407-420: the live probe of the single read asks /api/devices/info only
GetProbed(data, live, r) ==
    IF live /\ data.ip_address # NoAddr /\ r = "200"
    THEN [data EXCEPT !.status = "online", !.status_color = "green"]
    ELSE data

GetDevice(device_id, live, r) ==
    /\ getRes = NoGet
    /\ ~live => r = "error"
    /\ getRes' = IF RowIndex(paired_devices, device_id) = 0
                 THEN [NoGet EXCEPT !.status_code = 404, !.at = now, !.live = live]
                 ELSE [status_code |-> 200, at |-> now, live |-> live,
                       data |-> GetProbed(GetData(paired_devices[RowIndex(paired_devices, device_id)], now),
                                          live, r)]
    /\ UNCHANGED <<now, dbVars, pairVars, peerDeviceId, users, reply, adminVars, lst>>

\* the response is sent
GetClose ==
    /\ getRes # NoGet
    /\ getRes' = NoGet
    /\ UNCHANGED <<now, dbVars, pairVars, peerDeviceId, users, reply, adminVars, lst>>

\* --------------------------------------------- registries for the reads
\* a database that already holds peers: up to MaxRows rows with distinct
\* device_id; last_seen is nullable (models.py)
RowIds == <<"device-stub", "dev-1", "dev-2", "dev-3">>
RowAddrs == <<Addr("h1", NoPort), Addr("h2", DefaultPort), Addr("h3", NoPort),
              Addr("h4", NoPort)>>

StoredRow(i, last_seen) ==
    [device_id |-> RowIds[i], ip_address |-> RowAddrs[i], role |-> "member",
     cluster_id |-> None, shared_secret |-> None, paired_at |-> 0,
     last_seen |-> last_seen]

Registries ==
    UNION {{[i \in 1..n |-> StoredRow(i, ls[i])] : ls \in [1..n -> {NoTime, 0}]}
           : n \in 0..MaxRows}

\* ages on both sides of the two thresholds
ReadTimes == {0, OnlineBelow - 1, OnlineBelow, WarningBelow - 1, WarningBelow,
              WarningBelow + 100}

\* metadata: fresh database, seeded defaults, or a configured manager
Metadatas ==
    {<<>>,
     ensure_default_metadata(<<>>),
     set_metadata(set_metadata(set_metadata(ensure_default_metadata(<<>>),
         "device_name", "Front Desk"), "cluster_id", "cluster-1"),
         "paired_name:dev-1", "CTHz Node")}

InitList ==
    /\ now \in ReadTimes
    /\ paired_devices \in Registries
    /\ pairing_tokens = <<>>
    /\ device_metadata \in Metadatas
    /\ peerDeviceId = [peer \in Peers |-> None]
    /\ InitCommon

\* ------------------------------------------------------- specifications
\* the pairing handshake under concurrent callers, heartbeats and revokes
Next ==
    \/ Tick
    \/ \E p \in Callers, t \in Targets \cup {NoAddr} : PairCall(p, t)
    \/ \E p \in Callers : PairIssue(p)
    \/ \E p \in Callers : CsrOk(p)
    \/ \E p \in Callers : CsrFail(p)
    \/ \E p \in Callers : PairSign(p)
    \/ \E p \in Callers, hb \in BOOLEAN : InstallOk(p, hb)
    \/ \E p \in Callers : InstallFail(p)
    \/ \E p \in Callers : PairUpsert(p)
    \/ \E p \in Callers : PairReturn(p)
    \/ \E d \in HeartbeatIds, t \in {now, 0} : Heartbeat(d, t)
    \/ \E d \in HeartbeatIds : RevokeDevice(d) /\ UNCHANGED log

Spec == Init /\ [][Next]_vars

\* issuance and the acceptor of the joining node on their own
NextToken ==
    \/ Tick
    \/ \E d \in {None, "dev-1"}, t \in Targets : IssueToken(d, t)
    \/ \E peer \in Peers, tok \in PresentableTokens : PresentToken(peer, tok)

SpecToken == Init /\ [][NextToken]_vars

\* the registry reads (list and single read) with their liveness probes
NextList ==
    \/ \E live \in BOOLEAN : ListCall(live)
    \/ \E i \in 1..(MaxRows + 1), r \in HealthResults : ProbeHealth(i, r)
    \/ \E i \in 1..(MaxRows + 1), r \in InfoResults, name \in InfoNames : ProbeInfo(i, r, name)
    \/ ListReturn
    \/ ListClose
    \/ \E d \in HeartbeatIds, live \in BOOLEAN, r \in {"200", "error"} : GetDevice(d, live, r)
    \/ GetClose

SpecList == InitList /\ [][NextList]_vars

\* revokes of a client against a registry that holds peers, with heartbeats
InitRevoke ==
    /\ now = 0
    /\ paired_devices \in Registries
    /\ pairing_tokens = <<>>
    /\ device_metadata \in Metadatas
    /\ peerDeviceId = [peer \in Peers |-> None]
    /\ InitCommon

NextRevoke ==
    \/ \E d \in HeartbeatIds : ClientRevoke(d)
    \/ \E d \in HeartbeatIds : Heartbeat(d, now)

SpecRevoke == InitRevoke /\ [][NextRevoke]_vars

\* ----------------------------------------------- the CA, one call at a time
\* payloads of POST /cluster/sign-csr: the CSR of a joining node with any
\* device_id and cluster_id beside it
SignPayloads ==
    {[csr_pem |-> generate_key_and_csr("CTHz Node", "device-stub", "cluster-pending"),
      device_id |-> d, cluster_id |-> c, name |-> None]
        : d \in {"device-stub", "dev-1", NonAsciiId}, c \in {"cluster-pending", "cluster-1"}}

InitCa ==
    /\ now = 0
    /\ paired_devices = <<>>
    /\ pairing_tokens = <<>>
    /\ device_metadata \in Metadatas
    /\ peerDeviceId = [peer \in Peers |-> None]
    /\ InitCommon

NoSignOpen == \A s \in Signers : sig[s].pc = "idle"

\* a client that waits for each response before its next call
NextCa ==
    \/ NoSignOpen /\ Tick
    \/ NoSignOpen /\ BootstrapCa
    \/ NoSignOpen /\ \E payload \in SignPayloads : SignStart(1, payload)
    \/ SignGenerate(1)
    \/ SignSet(1)
    \/ SignReread(1)
    \/ SignFail(1)
    \/ SignBuild(1)
    \/ SignReturn(1)

SpecCa == InitCa /\ [][NextCa]_vars

\* --------------------------------------------- the metadata store alone
\* keys the routes write: two default keys (setup) and a paired_name key
\* (pairing); the values are nullable strings
WrittenKeys == {"device_name", "node_role", "paired_name:dev-1"}
MetaValues == {None, "Front Desk", "Lab"}

SetMetadata(key, value) ==
    /\ device_metadata' = set_metadata(device_metadata, key, value)
    /\ UNCHANGED <<now, paired_devices, pairing_tokens, pairVars, peerDeviceId, users,
                   reply, adminVars, listVars>>

EnsureDefaults ==
    /\ device_metadata' = ensure_default_metadata(device_metadata)
    /\ UNCHANGED <<now, paired_devices, pairing_tokens, pairVars, peerDeviceId, users,
                   reply, adminVars, listVars>>

InitMeta ==
    /\ now = 0
    /\ paired_devices = <<>>
    /\ pairing_tokens = <<>>
    /\ device_metadata = <<>>
    /\ peerDeviceId = [peer \in Peers |-> None]
    /\ InitCommon

NextMeta ==
    \/ \E key \in WrittenKeys, value \in MetaValues : SetMetadata(key, value)
    \/ EnsureDefaults

SpecMeta == InitMeta /\ [][NextMeta]_vars

\* ------------------------------------- privileged calls with credentials
\* one client with any credential at the three privileged endpoints, waiting
\* for each response before its next call; an admitted pairing call runs
\* its handshake
NoPairOpen == \A p \in Callers : call[p].pc = "idle"

NextAuth ==
    \/ NoPairOpen /\ \E creds \in Credentials, op \in PrivilegedOps : RejectRequest(op, creds)
    \/ NoPairOpen /\ \E creds \in Credentials, t \in Targets : RequestIssue(creds, None, t)
    \/ /\ NoPairOpen
       /\ pairsStarted < AuthPairs
       /\ \E creds \in Credentials, t \in Targets \cup {NoAddr} : RequestPair(creds, 1, t)
    \/ NoPairOpen /\ \E creds \in Credentials : RequestBootstrap(creds)
    \/ PairIssue(1)
    \/ CsrOk(1)
    \/ CsrFail(1)
    \/ PairSign(1)
    \/ \E hb \in BOOLEAN : InstallOk(1, hb)
    \/ InstallFail(1)
    \/ PairUpsert(1)
    \/ PairReturn(1)

SpecAuth == Init /\ [][NextAuth]_vars

\* ----------------------------------------- install_cert on joining nodes
\* what a caller may put into manager_endpoint: nothing, the manager, or an
\* address nobody answers at
ManagerEndpoints == {NoAddr, ManagerBase, Addr("gone", DefaultPort)}

NextInstall ==
    \/ Tick
    \/ \E peer \in Peers, ep \in ManagerEndpoints : InstallCert(peer, ep)
    \/ \E peer \in Peers : InstallHeartbeatOk(peer)
    \/ \E peer \in Peers, applied \in BOOLEAN : InstallHeartbeatFail(peer, applied)
    \/ \E peer \in Peers : InstallReturn(peer)

SpecInstall == InitRevoke /\ [][NextInstall]_vars

\* ------------------------------ the handshake with the candidate's side
\* one pairing call at a time; the install request is handled by the
\* candidate's install_cert, whose heartbeat the manager handles while its
\* pairing call awaits the answer
NextHandshake ==
    \/ Tick
    \/ \E t \in Targets \cup {NoAddr} : PairCall(1, t)
    \/ PairIssue(1)
    \/ CsrOk(1)
    \/ CsrFail(1)
    \/ PairSign(1)
    \/ \E k \in 0..3 : PairSignFail(1, k)
    \/ PairInstallDeliver(1)
    \/ \E peer \in Peers : InstallHeartbeatOk(peer)
    \/ \E peer \in Peers, applied \in BOOLEAN : InstallHeartbeatFail(peer, applied)
    \/ PairInstallAck(1)
    \/ InstallFail(1)
    \/ \E peer \in Peers : InstallReturnLate(peer)
    \/ PairUpsert(1)
    \/ PairReturn(1)

SpecHandshake == Init /\ [][NextHandshake]_vars

\* scheduling. Each outbound request ends with a response or with the
\* timeout of its client (15 s at the manager, routes.py:131 and 145; 10 s
\* at the candidate, devices/routes.py:284): weak fairness of the steps that
\* end a request. The handler's own code between two awaits runs: weak
\* fairness of PairIssue, PairSign / PairSignFail and PairUpsert, each
\* written with the position at which the step is enabled.
CandidateProgress ==
    \E peer \in Peers :
        \/ InstallHeartbeatOk(peer)
        \/ \E applied \in BOOLEAN : InstallHeartbeatFail(peer, applied)

HandshakeFairness ==
    /\ []<>(call[1].pc # "issue") \/ []<><<PairIssue(1)>>_vars
    /\ WF_vars(CsrOk(1) \/ CsrFail(1))
    /\ \/ []<>(call[1].pc # "sign")
       \/ []<><<PairSign(1) \/ \E k \in 0..3 : PairSignFail(1, k)>>_vars
    /\ WF_vars(PairInstallAck(1) \/ InstallFail(1))
    /\ []<>(call[1].pc # "upsert") \/ []<><<PairUpsert(1)>>_vars
    /\ WF_vars(CandidateProgress)

SpecHandshakeFair == SpecHandshake /\ HandshakeFairness

\* ------------------------------- handshakes on a registry that has rows
\* rows the registry may hold for the identifiers the candidates report,
\* under addresses no pairing call targets: another role, paired_at null
\* (the column is nullable) or set
RowVariants == {[role |-> "sensor", paired_at |-> NoTime],
                [role |-> "manager", paired_at |-> 0]}

OldRow(i, v) ==
    [device_id |-> RowIds[i], ip_address |-> RowAddrs[i + 2], role |-> v.role,
     cluster_id |-> None, shared_secret |-> None, paired_at |-> v.paired_at,
     last_seen |-> NoTime]

InitUpsert ==
    /\ now = 0
    /\ \E n \in 0..2 : \E v \in [1..n -> RowVariants] :
          paired_devices = [i \in 1..n |-> OldRow(i, v[i])]
    /\ pairing_tokens = <<>>
    /\ device_metadata = <<>>
    /\ peerDeviceId \in PeerConfigs
    /\ InitCommon

SpecUpsert == InitUpsert /\ [][NextHandshake]_vars

\* ------------------------- heartbeats against a registry that holds peers
\* times a heartbeat body carries: none, the past, the future
HeartbeatTimes == {NoTime, 0, TickSeconds + 1}

NextHeartbeat ==
    \/ Tick
    \/ \E d \in HeartbeatIds, time \in HeartbeatTimes : PostHeartbeat(d, time)
    \/ \E d \in HeartbeatIds : ClientRevoke(d)

SpecHeartbeat == InitRevoke /\ [][NextHeartbeat]_vars

\* ---------------- pairing, heartbeat and revoke calls one after the other
\* the targets an administrator may type, with both spellings of h2:8000
TypedTargets == Targets \cup {Addr("h2", NoPort)}

NextSequential ==
    \/ Tick
    \/ \E t \in TypedTargets : PairCall(1, t)
    \/ PairIssue(1)
    \/ CsrOk(1)
    \/ CsrFail(1)
    \/ PairSign(1)
    \/ \E hb \in BOOLEAN : InstallOk(1, hb)
    \/ InstallFail(1)
    \/ PairUpsert(1)
    \/ PairReturn(1)
    \/ NoPairOpen /\ \E d \in HeartbeatIds : Heartbeat(d, now)
    \/ NoPairOpen /\ \E d \in HeartbeatIds : RevokeDevice(d) /\ UNCHANGED log

SpecSequential == Init /\ [][NextSequential]_vars

\* ------------------------------------------------ SetupLockMiddleware
\* a request path as its pieces, cut where the prefixes of the middleware
\* end; request.url.path always begins with "/"
Path(rest) == <<"/">> \o rest

PathSetup == Path(<<"api/auth/setup">>)
PathHealth == Path(<<"healthz">>)
PathDocs == Path(<<"docs">>)
PathOpenapi == Path(<<"openapi", ".json">>)
PathClusterDevices == Path(<<"api/cluster/devices">>)
PathDevicesInfo == Path(<<"api/devices/info">>)
PathRoot == Path(<<>>)

RequestPaths == {PathSetup, PathHealth, PathDocs, PathOpenapi,
                 PathClusterDevices, PathDevicesInfo, PathRoot}

\* str.startswith
StartsWith(path, prefix) ==
    /\ Len(prefix) <= Len(path)
    /\ SubSeq(path, 1, Len(prefix)) = prefix

\* the prefixes named for setup, health and documentation (line 13)
SetupPrefixes == {Path(<<"api/auth/setup">>), Path(<<"api/setup">>),
                  Path(<<"healthz">>), Path(<<"docs">>), Path(<<"redoc">>),
                  Path(<<"openapi">>), Path(<<"setup">>)}

\* line 13: the whole condition, which ends with path.startswith("/")
PassesUnlocked(path) ==
    \/ \E prefix \in SetupPrefixes : StartsWith(path, prefix)
    \/ StartsWith(path, Path(<<>>))

\* lines 10-19: "next" when the request is handed to the application
Dispatch(path, has_user) ==
    IF PassesUnlocked(path) THEN "next"
    ELSE IF ~has_user THEN "locked"
    ELSE "next"

LockedStatus == 423

\* setup_owner (auth/routes.py:35-57): 400 for a rejected password, 409
\* when a user exists, else the owner is created
SetupStatus(valid, n) == IF ~valid THEN 400 ELSE IF n > 0 THEN 409 ELSE 200

\* what the handler of any other path may answer: its result, or 401 to a
\* request without credentials
HandlerStatuses == {200, 401}

\* a request for path arrives; valid: the body passes the password checks
\* of setup_owner; answer: the status of the handler of another path
HttpRequest(path, valid, answer) ==
    /\ Len(log) < MaxCalls
    /\ LET handled == Dispatch(path, users > 0) = "next"
           status_code == IF ~handled THEN LockedStatus
                          ELSE IF path = PathSetup THEN SetupStatus(valid, users)
                          ELSE answer
       IN /\ reply' = [op |-> "http", path |-> path, has_user |-> users > 0,
                       handled |-> handled, status_code |-> status_code]
          /\ users' = IF handled /\ path = PathSetup /\ status_code = 200
                      THEN users + 1 ELSE users
          /\ log' = Append(log, LogEntry("http", path[Len(path)], status_code, None, None))
    /\ UNCHANGED <<now, dbVars, pairVars, peerDeviceId, sig, net, inst, listVars>>

NextSetup ==
    \/ Tick
    \/ \E path \in RequestPaths, valid \in BOOLEAN, answer \in HandlerStatuses :
          HttpRequest(path, valid, answer)

SpecSetup == Init /\ [][NextSetup]_vars

\* ------------------------------------------ signing requests in parallel
\* NumSigners server processes on one database, no CA stored at the start
InitSign ==
    /\ now = 0
    /\ paired_devices = <<>>
    /\ pairing_tokens = <<>>
    /\ device_metadata \in Metadatas
    /\ peerDeviceId = [peer \in Peers |-> None]
    /\ InitCommon

\* the joining nodes whose CSRs are signed
RacePayloads == {payload \in SignPayloads :
                    /\ payload.device_id \in {"device-stub", "dev-1"}
                    /\ payload.cluster_id = "cluster-pending"}

NextSign ==
    \/ \E s \in Signers, payload \in RacePayloads : SignStart(s, payload)
    \/ \E s \in Signers : SignGenerate(s)
    \/ \E s \in Signers : SignSet(s)
    \/ \E s \in Signers : SignReread(s)
    \/ \E s \in Signers : SignFail(s)
    \/ \E s \in Signers : SignBuild(s)
    \/ \E s \in Signers : SignReturn(s)

SpecSign == InitSign /\ [][NextSign]_vars

\* ------------------------------------------- live list over ProbePeers peers
\* how a node answers the two probe requests of probe_one
Conditions ==
    {[health |-> "200", info |-> "200"], [health |-> "error", info |-> "error"]}
        \cup {[health |-> "503", info |-> r] : r \in InfoResults}

\* base_host of probe_one: the address with :8000 appended when it has no port
ProbeBase(device) == DeviceBase(device.ip_address)

ProbeAddrs == {ManagerBase} \cup {DeviceBase(RowAddrs[i]) : i \in 1..ProbePeers}

\* last_seen of row i in the two registries probed: never seen / warning /
\* online by turns, or never seen throughout
ProbeSeen(k, i) ==
    IF k = 2 THEN NoTime
    ELSE CASE i % 3 = 1 -> NoTime
           [] i % 3 = 2 -> WarningBelow - 400
           [] OTHER -> WarningBelow + 50

InitProbe ==
    /\ now = WarningBelow + 100
    /\ \E k \in 1..2 :
          paired_devices = [i \in 1..ProbePeers |-> StoredRow(i, ProbeSeen(k, i))]
    /\ pairing_tokens = <<>>
    /\ device_metadata = ensure_default_metadata(<<>>)
    /\ peerDeviceId = [peer \in Peers |-> None]
    /\ caCount = 0
    /\ uuidCtr = 0
    /\ call = [p \in Callers |-> IdleCall]
    /\ issued = <<>>
    /\ pairsStarted = 0
    /\ csrLog = {}
    /\ presented = 0
    /\ reply = NoReply
    /\ lst = IdleList
    /\ getRes = NoGet
    /\ log = <<>>
    /\ sig = [s \in Signers |-> IdleSign]
    /\ net \in [ProbeAddrs -> Conditions]
    /\ net[ManagerBase].health # "503"
    /\ inst = [peer \in Peers |-> IdleInst]
    /\ users = 0

\* the probe tasks of the task group, in any order; each gets the answer of
\* the node at its address
NextProbe ==
    \/ ListCall(TRUE)
    \/ \E i \in 1..(ProbePeers + 1) :
          /\ i <= Len(lst.devices)
          /\ ProbeHealth(i, net[ProbeBase(lst.devices[i])].health)
    \/ \E i \in 1..(ProbePeers + 1), name \in InfoNames :
          /\ i <= Len(lst.devices)
          /\ ProbeInfo(i, net[ProbeBase(lst.devices[i])].info, name)
    \/ ListReturn

SpecProbe == InitProbe /\ [][NextProbe]_vars

\* probes of nodes whose /healthz fails or times out while their
\* /api/devices/info would answer
FallbackConditions ==
    {[health |-> "error", info |-> "200"], [health |-> "error", info |-> "401"],
     [health |-> "503", info |-> "200"], [health |-> "error", info |-> "error"]}

InitFallback ==
    /\ now = WarningBelow + 100
    /\ paired_devices = [i \in 1..ProbePeers |-> StoredRow(i, ProbeSeen(1, i))]
    /\ pairing_tokens = <<>>
    /\ device_metadata = ensure_default_metadata(<<>>)
    /\ peerDeviceId = [peer \in Peers |-> None]
    /\ caCount = 0
    /\ uuidCtr = 0
    /\ call = [p \in Callers |-> IdleCall]
    /\ issued = <<>>
    /\ pairsStarted = 0
    /\ csrLog = {}
    /\ presented = 0
    /\ reply = NoReply
    /\ lst = IdleList
    /\ getRes = NoGet
    /\ log = <<>>
    /\ sig = [s \in Signers |-> IdleSign]
    /\ inst = [peer \in Peers |-> IdleInst]
    /\ users = 0
    /\ net \in [ProbeAddrs -> FallbackConditions \cup {[health |-> "200", info |-> "200"]}]
    /\ net[ManagerBase].health = "200"
    /\ \A i \in 1..ProbePeers : net[DeviceBase(RowAddrs[i])] \in FallbackConditions

SpecFallback == InitFallback /\ [][NextProbe]_vars

\* ================================================================ claims
Has(seq, x) == \E i \in 1..Len(seq) : seq[i] = x
TokenRowOf(jti) == \E i \in 1..Len(pairing_tokens) : pairing_tokens[i].token = jti

\* ---- C1
\* a call that leaves idle for a target whose address is registered
C1_ConflictStep ==
    \A p \in Callers :
        (/\ call[p].pc = "idle"
         /\ call'[p].pc # "idle"
         /\ \E i \in 1..Len(paired_devices) :
                paired_devices[i].ip_address = call'[p].target)
        => /\ call'[p].pc = "done"
           /\ call'[p].outcome = 409
           /\ call'[p].trace = <<"check">>
           /\ UNCHANGED <<paired_devices, pairing_tokens, device_metadata>>

\* C1: pairByAddress for a target address that is already in the registry
\* ends with 409 after the check alone (no token, no outbound request) and
\* leaves paired_devices, pairing_tokens and device_metadata unchanged.
C1_ConflictLeavesStateUnchanged == [][C1_ConflictStep]_vars

C1_Witness ==
    \E p \in Callers :
        /\ call[p].pc = "done"
        /\ call[p].outcome = 409
        /\ \E i \in 1..Len(paired_devices) :
               paired_devices[i].ip_address = call[p].target

\* ---- C2
C2_UniqueDeviceId ==
    \A i, j \in 1..Len(paired_devices) :
        i # j => paired_devices[i].device_id # paired_devices[j].device_id

C2_UpsertStep ==
    \A p \in Callers :
        (call[p].pc = "upsert" /\ call'[p].pc = "done")
        => IF \E i \in 1..Len(paired_devices) :
                  paired_devices[i].device_id = call[p].device_csr.device_id
           THEN /\ Len(paired_devices') = Len(paired_devices)
                /\ \A i \in 1..Len(paired_devices) :
                      /\ paired_devices'[i].device_id = paired_devices[i].device_id
                      /\ paired_devices[i].device_id # call[p].device_csr.device_id
                            => paired_devices'[i] = paired_devices[i]
                      /\ paired_devices[i].device_id = call[p].device_csr.device_id
                            => paired_devices'[i].ip_address = call[p].target
           ELSE Len(paired_devices') = Len(paired_devices) + 1

\* C2: the registry never holds two rows with the same device_id, and the
\* upsert of a handshake whose peer reports an existing device_id updates
\* that row in place (same position, same number of rows).
C2_IdentifierUnique == []C2_UniqueDeviceId /\ [][C2_UpsertStep]_vars

\* two handshakes succeeded, nothing was revoked, and there is one row
C2_Witness ==
    /\ \A p \in Callers : call[p].pc = "done" /\ call[p].outcome = 200
    /\ call[1].target # call[2].target
    /\ reply = NoReply
    /\ Len(paired_devices) = 1

\* ---- C3
PastCheck(p) == call[p].pc # "idle" /\ Has(call[p].trace, "issue")

\* C3: of two overlapping pairByAddress invocations for the same target at
\* most one gets past the already-paired check and issues a token.
C3_AtMostOnePastCheck ==
    \A p, q \in Callers :
        (p # q /\ call[p].target = call[q].target)
        => ~(PastCheck(p) /\ PastCheck(q))

\* ---- C4
C4_CsrFailStep ==
    \A p \in Callers :
        (/\ call[p].pc = "csr_req"
         /\ call'[p].pc # "csr_req"
         /\ call'[p].device_csr = NoCsr)
        => /\ call'[p].pc = "done"
           /\ call'[p].outcome = 408
           /\ UNCHANGED <<paired_devices, device_metadata, caCount>>

C4_After408 ==
    \A p \in Callers :
        (call[p].pc = "done" /\ call[p].outcome = 408)
        => /\ call[p].trace = <<"check", "issue", "csr">>
           /\ call[p].bundle = NoBundle

\* C4: a failed CSR request ends the invocation with 408 after exactly one
\* CSR request; nothing is signed, no install request is sent and
\* paired_devices is left unchanged.
C4_CsrFailureIs408 == []C4_After408 /\ [][C4_CsrFailStep]_vars

C4_Witness ==
    \E p \in Callers :
        /\ call[p].pc = "done"
        /\ call[p].outcome = 408
        /\ TokenRowOf(call[p].token.jti)

\* ---- C5
C5_InstallFailStep ==
    \A p \in Callers :
        (call[p].pc = "install_req" /\ call'[p].pc = "done")
        => /\ call'[p].outcome \notin {200, 408}
           /\ call'[p].bundle = call[p].bundle
           /\ UNCHANGED <<paired_devices, pairing_tokens, device_metadata>>

C5_AfterInstallFailure ==
    \A p \in Callers :
        (call[p].pc = "done" /\ Has(call[p].trace, "install") /\ call[p].outcome # 200)
        => /\ call[p].outcome = 500
           /\ ~Has(call[p].trace, "upsert")
           /\ call[p].bundle # NoBundle
           /\ TokenRowOf(call[p].token.jti)
           /\ get_metadata(device_metadata, "ca_cert_pem") # None

C6_IssuedTokensRecorded ==
    /\ \A i \in 1..Len(issued) : TokenRowOf(issued[i].jti)
    /\ Len(pairing_tokens) = Len(issued)
    /\ \A i, j \in 1..Len(issued) : i # j => issued[i].jti # issued[j].jti
    /\ \A i, j \in 1..Len(pairing_tokens) :
          i # j => pairing_tokens[i].token # pairing_tokens[j].token

\* two tokens for one target inside the lifetime of the first, after a
\* handshake that failed
C6_Witness ==
    /\ Len(issued) >= 2
    /\ issued[1].token.target_ip = issued[2].token.target_ip
    /\ issued[1].jti # issued[2].jti
    /\ now < issued[1].exp
    /\ \E p \in Callers : call[p].pc = "done" /\ call[p].outcome = 408

\* ---- C7
\* C7: acceptPairingRequest issues a CSR only for a token that carries the
\* manager's signature and the audience "device", has not expired and has
\* not been presented before.
C7_CsrOnlyForValidToken ==
    \A e \in csrLog :
        /\ e.key = "secret_key"
        /\ e.aud = "device"
        /\ ~e.expired
        /\ ~e.replay

\* ---- C8
\* the derived status as the data model states it
StatusOfAge(t, last_seen) ==
    IF last_seen = NoTime THEN "offline"
    ELSE IF t - last_seen < 120 THEN "online"
    ELSE IF t - last_seen >= 120 /\ t - last_seen < 600 THEN "warning"
    ELSE "offline"

\* entry i of the list result still carries the status derived from the row
Unprobed(i) == ~lst.live \/ lst.tasks[i] # "done"

\* C8: the status that list and the single read report for a row (before any
\* probe override) is online for an age below 120 s, warning from 120 s to
\* below 600 s, offline from 600 s on and offline without last_seen; list
\* and single read agree on the same row at the same time.
C8_DerivedStatus ==
    /\ lst.pc \in {"probing", "done"} =>
          \A i \in 2..Len(lst.devices) :
              Unprobed(i) => lst.devices[i].status =
                                StatusOfAge(lst.at, lst.devices[i].last_seen)
    /\ (getRes.status_code = 200 /\ ~getRes.live) =>
          getRes.data.status = StatusOfAge(getRes.at, getRes.data.last_seen)
    /\ (lst.pc = "done" /\ ~lst.live /\ getRes.status_code = 200 /\ ~getRes.live
            /\ lst.at = getRes.at) =>
          \A i \in 2..Len(lst.devices) :
              (/\ lst.devices[i].device_id = getRes.data.device_id
               /\ lst.devices[i].last_seen = getRes.data.last_seen)
              => /\ lst.devices[i].status = getRes.data.status
                 /\ lst.devices[i].status_color = getRes.data.status_color

\* a list and a single read of a row in warning, next to a row without last_seen
C8_Witness ==
    /\ lst.pc = "done" /\ ~lst.live
    /\ getRes.status_code = 200 /\ ~getRes.live
    /\ getRes.data.status = "warning"
    /\ \E i, j \in 2..Len(lst.devices) :
          /\ lst.devices[i].device_id = getRes.data.device_id
          /\ lst.devices[i].status = "warning"
          /\ lst.devices[j].last_seen = NoTime
          /\ lst.devices[j].status = "offline"

LiveListStep == lst' # lst /\ (lst.live \/ lst'.live)

\* C10 as claimed: no step of a list call with liveProbe changes a paired_devices
\* row or a device_metadata entry.
C10_LiveListChangesNoState ==
    [][LiveListStep => UNCHANGED <<paired_devices, device_metadata>>]_vars

MetaKeys == {DefaultKeys[i] : i \in 1..Len(DefaultKeys)}
                \cup {PairedNameKey(RowIds[i]) : i \in 1..Len(RowIds)}

\* existing entries are kept as they are; new entries are default keys with
\* value None
OnlyDefaultsSeeded ==
    /\ Len(device_metadata') >= Len(device_metadata)
    /\ SubSeq(device_metadata', 1, Len(device_metadata)) = device_metadata
    /\ \A i \in (Len(device_metadata) + 1)..Len(device_metadata') :
          /\ device_metadata'[i].value = None
          /\ \E k \in 1..Len(DefaultKeys) : device_metadata'[i].key = DefaultKeys[k]
    /\ \A key \in MetaKeys :
          get_metadata(device_metadata', key) = get_metadata(device_metadata, key)

PlainListDerived ==
    (lst.pc = "done" /\ ~lst.live) =>
        \A i \in 1..Len(lst.rows) :
            lst.devices[i + 1].status = StatusOfAge(lst.at, lst.rows[i].last_seen)

\* C10 (amended): a list call with liveProbe changes no paired_devices row
\* (last_seen included), no pairing_tokens row and no existing
\* device_metadata entry, whatever the probes answer; the only thing it may
\* persist is the missing default metadata keys, created with value None.
\* A list call without liveProbe reports the status derived from last_seen.
C10_LiveListPersistsOnlyDefaults ==
    /\ [][LiveListStep => /\ UNCHANGED <<paired_devices, pairing_tokens>>
                          /\ OnlyDefaultsSeeded]_vars
    /\ []PlainListDerived

\* a probe turned an offline entry online and the row is as it was
C10_Witness ==
    /\ lst.pc = "done" /\ lst.live
    /\ paired_devices = lst.rows
    /\ \E i \in 1..Len(lst.rows) :
          /\ lst.devices[i + 1].status = "online"
          /\ StatusOfAge(lst.at, paired_devices[i].last_seen) = "offline"

\* ---- C11
Registered(rows, device_id) == \E i \in 1..Len(rows) : rows[i].device_id = device_id

\* the rows of the registry other than those of device_id, in storage order
Without(rows, device_id) ==
    LET Keep(r) == r.device_id # device_id IN SelectSeq(rows, Keep)

\* a step in which a client got the response of a revoke
C11_RevokeStep ==
    (Len(log') = Len(log) + 1 /\ log'[Len(log')].op = "revoke") =>
        LET d == log'[Len(log')].arg
            code == log'[Len(log')].status_code
        IN /\ UNCHANGED <<pairing_tokens, device_metadata>>
           /\ IF Registered(paired_devices, d)
              THEN /\ code = 200
                   /\ Len(paired_devices') = Len(paired_devices) - 1
                   /\ paired_devices' = Without(paired_devices, d)
                   /\ ~Registered(paired_devices', d)
              ELSE /\ code = 404
                   /\ paired_devices' = paired_devices

\* a revoke right after a successful revoke of the same identifier
C11_SecondRevoke ==
    \A k \in 2..Len(log) :
        (/\ log[k - 1].op = "revoke" /\ log[k - 1].status_code = 200
         /\ log[k].op = "revoke" /\ log[k].arg = log[k - 1].arg)
        => log[k].status_code = 404

\* C11: revoke of a registered identifier deletes exactly that row and
\* answers 200; revoke of an identifier that is not registered answers 404
\* and changes nothing; a second revoke right after a successful one of the
\* same identifier answers 404.
C11_RevokeDeletesOrNotFound == []C11_SecondRevoke /\ [][C11_RevokeStep]_vars

\* the second row was revoked twice and the first row is still there
C11_Witness ==
    /\ Len(log) = 2
    /\ log[1] = LogEntry("revoke", "dev-1", 200, None, None)
    /\ log[2] = LogEntry("revoke", "dev-1", 404, None, None)
    /\ Len(paired_devices) = 1
    /\ paired_devices[1].device_id = "device-stub"

\* ---- C12
\* the node at the address of entry i answers one of the two probe requests
\* with a status that counts as alive
Alive(i) ==
    LET c == net[ProbeBase(lst.devices[i])] IN
    c.health = "200" \/ (c.health = "503" /\ c.info \in {"200", "401"})

\* the first request to the node of entry i times out or fails in transport
TimesOut(i) == net[ProbeBase(lst.devices[i])].health = "error"

\* the status of entry i before any probe: the virtual entry is online, a
\* peer has the status derived from its row
PreProbe(i) ==
    IF i = 1 THEN "online" ELSE StatusOfAge(lst.at, lst.rows[i - 1].last_seen)

Ended(i) == lst.tasks[i] = "done"

\* C12: during and after the probes of a live list every entry has its
\* pre-probe status or online; an entry whose check timed out or failed has
\* its pre-probe status, an entry whose check succeeded is online; the call
\* returns all entries, and of three peers with one timing out and two
\* succeeding exactly the two succeeding ones are set online.
C12_ProbeKeepsOrOnline ==
    (lst.pc \in {"probing", "done"} /\ lst.live) =>
        /\ Len(lst.devices) = Len(lst.rows) + 1
        /\ \A i \in 1..Len(lst.devices) :
              /\ lst.devices[i].status \in {PreProbe(i), "online"}
              /\ ~Ended(i) => lst.devices[i].status = PreProbe(i)
              /\ (Ended(i) /\ ~Alive(i)) => lst.devices[i].status = PreProbe(i)
              /\ (Ended(i) /\ Alive(i)) => lst.devices[i].status = "online"
        /\ (/\ lst.pc = "done"
            /\ Cardinality({i \in 2..Len(lst.devices) : TimesOut(i)}) = 1
            /\ Cardinality({i \in 2..Len(lst.devices) : Alive(i)}) = Len(lst.rows) - 1)
           => {i \in 2..Len(lst.devices) :
                  lst.devices[i].status = "online" /\ ~TimesOut(i)}
              = {i \in 2..Len(lst.devices) : Alive(i)}

\* three peers: the second timed out and stays in warning, the first was
\* offline and is online after its answer, the third answered too
C12_Witness ==
    /\ lst.pc = "done" /\ lst.live
    /\ Len(lst.rows) = 3
    /\ PreProbe(3) = "warning"
    /\ TimesOut(3) /\ lst.devices[3].status = "warning"
    /\ Alive(2) /\ lst.devices[2].status = "online" /\ PreProbe(2) = "offline"
    /\ Alive(4) /\ lst.devices[4].status = "online"

\* ---- C13
\* a step of the task group touches the entry of one task only
C13_IsolatedStep ==
    (lst.pc = "probing" /\ lst'.pc = "probing" /\ lst' # lst) =>
        \E i \in 1..Len(lst.tasks) :
            /\ lst.tasks[i] # "done"
            /\ lst'.tasks[i] # lst.tasks[i]
            /\ \A j \in 1..Len(lst.tasks) :
                  j # i => /\ lst'.tasks[j] = lst.tasks[j]
                           /\ lst'.devices[j] = lst.devices[j]

\* whatever the other tasks did, a task that has not ended can take its
\* next step
C13_NeverBlocked ==
    lst.pc = "probing" =>
        \A i \in 1..Len(lst.tasks) :
            /\ lst.tasks[i] = "health" =>
                  ENABLED ProbeHealth(i, net[ProbeBase(lst.devices[i])].health)
            /\ lst.tasks[i] = "info" =>
                  ENABLED ProbeInfo(i, net[ProbeBase(lst.devices[i])].info, None)

\* the call returns when every task has ended, each entry with the result
\* of its own check
C13_AllApplied ==
    (lst.pc = "done" /\ lst.live) =>
        \A i \in 1..Len(lst.devices) :
            /\ Ended(i)
            /\ lst.devices[i].status = IF Alive(i) THEN "online" ELSE PreProbe(i)

\* C13: the probes of a live list are independent tasks: in every
\* interleaving a failure, error answer or timeout of one check neither
\* ends nor blocks the check of another entry, and every entry has the
\* result of its own check applied when the call returns.
C13_ProbesIndependent ==
    /\ []C13_NeverBlocked
    /\ []C13_AllApplied
    /\ [][C13_IsolatedStep]_vars

\* the check of the second peer timed out while the first peer's check is
\* at its second request and the third peer's check has not been answered
C13_Witness ==
    /\ lst.pc = "probing"
    /\ Len(lst.rows) = 3
    /\ Ended(3) /\ TimesOut(3)
    /\ lst.tasks[2] = "info"
    /\ lst.tasks[4] = "health" /\ Alive(4)

\* ---- C14
\* the client got the response of a call of op in this step
Answered(op) == Len(log') = Len(log) + 1 /\ log'[Len(log')].op = op

CaMaterial(rows) ==
    <<get_metadata(rows, "cluster_id"), get_metadata(rows, "ca_cert_pem"),
      get_metadata(rows, "ca_key_pem"), get_metadata(rows, "ca_fingerprint")>>

C14_SameAnswer ==
    \A i, j \in 1..Len(log) :
        (i < j /\ log[i].op = "bootstrap" /\ log[j].op = "bootstrap")
        => /\ log[i].status_code = 200 /\ log[j].status_code = 200
           /\ log[i].cluster_id # None /\ log[i].fp # None
           /\ log[j].cluster_id = log[i].cluster_id
           /\ log[j].fp = log[i].fp

C14_SecondCallStep ==
    (Answered("bootstrap") /\ \E i \in 1..Len(log) : log[i].op = "bootstrap")
    => CaMaterial(device_metadata') = CaMaterial(device_metadata)

\* C14: two bootstrap calls in sequence return the same cluster_id and the
\* same CA fingerprint, and the second call leaves the stored cluster_id,
\* CA certificate, CA key and fingerprint as they are.
C14_BootstrapIdempotent == []C14_SameAnswer /\ [][C14_SecondCallStep]_vars

\* two bootstrap calls on a fresh store, the clock having advanced
C14_Witness ==
    /\ Len(log) = 2
    /\ log[1].op = "bootstrap" /\ log[2].op = "bootstrap"
    /\ log[1].cluster_id = ClusterIdAt(0)
    /\ log[2].fp = CaFingerprints[1]
    /\ now > 0
    /\ caCount = 1

\* ---- C15
\* the generated CA with this certificate has this fingerprint
FpOfCert(cert_pem, fp) ==
    \E n \in 1..Len(CaCertPems) : CaCertPems[n] = cert_pem /\ CaFingerprints[n] = fp

\* the response of a signing call that found no CA and succeeded
FirstSign(e) == e.op = "sign" /\ e.arg = "no-ca" /\ e.status_code = 200

\* the first-time call that is about to answer 200 has generated a CA, the
\* store holds exactly that CA and the certificate is signed by it
C15_Created ==
    \A s \in Signers :
        (sig[s].pc = "done" /\ sig[s].found = "no-ca" /\ sig[s].status_code = 200)
        => /\ sig[s].gen # 0
           /\ get_metadata(device_metadata, "ca_cert_pem") = generate_ca(sig[s].gen).cert_pem
           /\ get_metadata(device_metadata, "ca_key_pem") = generate_ca(sig[s].gen).key_pem
           /\ get_metadata(device_metadata, "ca_fingerprint") = generate_ca(sig[s].gen).fp
           /\ sig[s].bundle.device_cert_pem.issuer = generate_ca(sig[s].gen).cert_pem
           /\ sig[s].bundle.ca_cert_pem = generate_ca(sig[s].gen).cert_pem

\* every later answer carries the fingerprint of the first; later signing
\* calls find the CA and succeed
C15_Reused ==
    \A i, j \in 1..Len(log) :
        (i < j /\ FirstSign(log[i]))
        => /\ log[i].fp # None
           /\ log[j].fp = log[i].fp
           /\ log[j].status_code = 200
           /\ log[j].op = "sign" => log[j].arg = "ca"
           /\ get_metadata(device_metadata, "ca_fingerprint") = log[i].fp

\* a later signing call signs with the CA of the first
C15_SignedBySame ==
    \A s \in Signers, i \in 1..Len(log) :
        (FirstSign(log[i]) /\ sig[s].pc = "done")
        => /\ sig[s].status_code = 200
           /\ FpOfCert(sig[s].bundle.device_cert_pem.issuer, log[i].fp)
           /\ FpOfCert(sig[s].bundle.ca_cert_pem, log[i].fp)

\* C15: a signing call that finds no CA stored creates one, stores it and
\* succeeds; every later signing call signs with that CA and leaves its
\* fingerprint stored, and a later bootstrap call returns that fingerprint.
C15_AutoCreatedCaReused == C15_Created /\ C15_Reused /\ C15_SignedBySame

\* first-time signing, a second signing, then a bootstrap call
C15_Witness ==
    /\ Len(log) = 3
    /\ FirstSign(log[1])
    /\ log[2].op = "sign" /\ log[2].arg = "ca" /\ log[2].status_code = 200
    /\ log[3].op = "bootstrap"
    /\ log[3].fp = log[1].fp
    /\ caCount = 1

\* ---- C16
\* the metadata key a request at this position writes, and the value
StoreKey(pc) ==
    CASE pc = "set_cert" -> "ca_cert_pem"
      [] pc = "set_key" -> "ca_key_pem"
      [] OTHER -> "ca_fingerprint"

StoreValue(pc, n) ==
    CASE pc = "set_cert" -> generate_ca(n).cert_pem
      [] pc = "set_key" -> generate_ca(n).key_pem
      [] OTHER -> generate_ca(n).fp

Writing(s) == sig[s].pc \in {"set_cert", "set_key", "set_fp"}

\* two requests that both saw no CA have generated different CAs, and a
\* request about to write is never refused
C16_EachGenerates ==
    /\ \A s, t \in Signers :
          (s # t /\ sig[s].gen # 0 /\ sig[t].gen # 0) => sig[s].gen # sig[t].gen
    /\ \A s \in Signers :
          /\ (sig[s].pc # "idle" /\ sig[s].found = "no-ca"
               /\ sig[s].pc # "generate" /\ sig[s].status_code # 409) => sig[s].gen # 0
          /\ Writing(s) => ENABLED SignSet(s)

\* a write replaces whatever another request stored, and nobody is told:
\* no status changes and no other request moves
C16_LaterWriteWins ==
    \A s \in Signers :
        (Writing(s) /\ sig'[s].pc # sig[s].pc /\ sig'[s].pc # "done")
        => /\ get_metadata(device_metadata', StoreKey(sig[s].pc))
                = StoreValue(sig[s].pc, sig[s].gen)
           /\ \A t \in Signers : t # s => sig'[t] = sig[t]
           /\ sig'[s].status_code = sig[s].status_code

\* the certificate of a request that generated a CA and did not read back
\* another one is signed by the CA it generated
C16_SignedByOwn ==
    \A s \in Signers :
        (sig[s].pc = "done" /\ sig[s].status_code = 200 /\ sig[s].gen # 0
         /\ sig[s].ca_key_pem = generate_ca(sig[s].gen).key_pem)
        => sig[s].bundle.device_cert_pem.issuer = generate_ca(sig[s].gen).cert_pem

\* C16: two concurrent first-time signing requests each see no CA and each
\* generate a distinct CA; each write replaces what the other stored without
\* any error, so the later write wins and a returned certificate can be
\* signed by a CA that is not the one left in the store (C16_Witness).
C16_FirstTimeRace ==
    [](C16_EachGenerates /\ C16_SignedByOwn) /\ [][C16_LaterWriteWins]_vars

\* both requests found no CA and succeeded; the first one's certificate is
\* signed by its own CA, the store holds the CA of the second
C16_Witness ==
    /\ \A s \in Signers : /\ sig[s].pc = "done" /\ sig[s].found = "no-ca"
                           /\ sig[s].status_code = 200
    /\ sig[1].bundle.device_cert_pem.issuer = generate_ca(sig[1].gen).cert_pem
    /\ sig[1].gen # sig[2].gen
    /\ CaMaterial(device_metadata)[2] = generate_ca(sig[2].gen).cert_pem
    /\ CaMaterial(device_metadata)[3] = generate_ca(sig[2].gen).key_pem
    /\ CaMaterial(device_metadata)[4] = generate_ca(sig[2].gen).fp
    /\ sig[1].bundle.device_cert_pem.issuer # get_metadata(device_metadata, "ca_cert_pem")

\* ---- C17
\* a signing request whose auto-bootstrap failed and that is about to answer
BootstrapFailed(s) ==
    sig[s].pc = "done" /\ sig[s].found = "no-ca" /\ sig[s].status_code # 200

\* C17: a signing request that finds no CA and whose CA bootstrap fails
\* ends with 409, and it leaves no CA in the store that a later call would
\* treat as present (certificate and key both stored).
C17_FailedBootstrapLeavesNoCa ==
    \A s \in Signers :
        BootstrapFailed(s)
        => /\ sig[s].status_code = 409
           /\ SignCsrGenerates(device_metadata)

\* ---- C18
\* what a reader of the certificate's SAN recovers: the values behind the
\* tags device: and cluster:, None where the certificate has no such entry
SanDevice(cert) == cert.san_device
SanCluster(cert) == cert.san_cluster

\* C18: for every (deviceId, clusterId) pair the certificate sign_csr
\* returns carries device:<deviceId> and cluster:<clusterId> in its SAN, so
\* reading the SAN recovers exactly the two identifiers passed in.
C18_SanRoundTrip ==
    \A s \in Signers :
        (sig[s].pc = "done" /\ sig[s].status_code = 200)
        => /\ SanDevice(sig[s].bundle.device_cert_pem) = sig[s].payload.device_id
           /\ SanCluster(sig[s].bundle.device_cert_pem) = sig[s].payload.cluster_id

\* ---- C19
\* the rows of a store that have this key
RowsOf(rows, key) == {i \in 1..Len(rows) : rows[i].key = key}

NoDuplicateKey(rows) ==
    \A i, j \in 1..Len(rows) : rows[i].key = rows[j].key => i = j

MissingDefaults(rows) ==
    {k \in 1..Len(DefaultKeys) : RowsOf(rows, DefaultKeys[k]) = {}}

\* what a further ensure-defaults call makes of the store as it is
Ensured == ensure_default_metadata(device_metadata)

\* C19: after any sequence of set and ensure-defaults calls, a further
\* ensure-defaults call leaves every key with a non-null value (and every
\* existing row) as it is, creates each missing default key once with
\* value null, never yields two rows for one key, and a call after it
\* changes nothing.
C19_EnsureIdempotent ==
    /\ NoDuplicateKey(device_metadata)
    /\ NoDuplicateKey(Ensured)
    /\ \A i \in 1..Len(device_metadata) : Ensured[i] = device_metadata[i]
    /\ Len(Ensured) = Len(device_metadata) + Cardinality(MissingDefaults(device_metadata))
    /\ \A k \in 1..Len(DefaultKeys) :
          /\ Cardinality(RowsOf(Ensured, DefaultKeys[k])) = 1
          /\ k \in MissingDefaults(device_metadata)
                => get_metadata(Ensured, DefaultKeys[k]) = None
    /\ ensure_default_metadata(Ensured) = Ensured

\* the defaults were seeded after device_name had a value and before the
\* paired_name key was written; node_role was set to null and back
C19_Witness ==
    /\ Len(device_metadata) = Len(DefaultKeys) + 1
    /\ device_metadata[1] = [key |-> "device_name", value |-> "Front Desk"]
    /\ device_metadata[2] = [key |-> "node_role", value |-> None]
    /\ device_metadata[Len(device_metadata)].key = "paired_name:dev-1"
    /\ get_metadata(device_metadata, "device_id") = None
    /\ RowsOf(device_metadata, "device_id") # {}

\* ---- C20
\* a credential that names a user: a token signed with the server's key,
\* not expired, with subject and role
ValidCredential(creds) ==
    /\ creds.present
    /\ creds.key = "secret_key"
    /\ creds.exp >= now
    /\ creds.sub # Absent
    /\ creds.role # Absent

Unprivileged(creds) == ValidCredential(creds) /\ creds.role \notin {"owner", "admin"}

\* a privileged endpoint answered with an error of the role check
RoleCheckAnswered == reply' # reply /\ reply'.op \in PrivilegedOps

C20_RejectionStep ==
    RoleCheckAnswered
    => /\ \/ ~ValidCredential(reply'.creds) /\ reply'.status_code = 401
          \/ Unprivileged(reply'.creds) /\ reply'.status_code = 403
       /\ UNCHANGED <<pairing_tokens, paired_devices, device_metadata, caCount,
                      issued, call, pairsStarted, uuidCtr, log>>

\* such a caller always gets the rejection and never reaches a handler body
C20_NeverAdmitted ==
    \A creds \in Credentials :
        (~ValidCredential(creds) \/ Unprivileged(creds))
        => /\ \A op \in PrivilegedOps : NoPairOpen => ENABLED RejectRequest(op, creds)
           /\ \A t \in Targets : ~ENABLED RequestIssue(creds, None, t)
           /\ \A t \in Targets \cup {NoAddr} : ~ENABLED RequestPair(creds, 1, t)
           /\ ~ENABLED RequestBootstrap(creds)

\* C20: pairing-token, pair and bootstrap-ca answer a caller without a
\* valid credential with 401 and a caller whose role is neither owner nor
\* admin with 403; such a call creates or changes no PairingToken row, no
\* CA material, no cluster_id and no PairedDevice row.
C20_PrivilegedCallsRejected == []C20_NeverAdmitted /\ [][C20_RejectionStep]_vars

\* a monitor is refused a pairing call on a manager that has a CA, issued
\* tokens and a paired device
C20_Witness ==
    /\ reply.op = "pair"
    /\ reply.status_code = 403
    /\ reply.creds = create_access_token("bob", "monitor", 0)
    /\ Len(paired_devices) > 0
    /\ Len(pairing_tokens) > 0
    /\ get_metadata(device_metadata, "ca_fingerprint") # None
    /\ get_metadata(device_metadata, "cluster_id") # None

\* ---- C21
Answering(peer) == inst[peer].pc = "done"

C21_Acknowledged ==
    \A peer \in Peers :
        /\ inst[peer].sent <= 1
        /\ inst[peer].sent = 1 <=> inst[peer].manager_endpoint # NoAddr
        /\ Answering(peer)
             => /\ inst[peer].status_code = 200
                /\ inst[peer].ack = [status |-> "installed", node_role |-> "member",
                                     heartbeat_interval_s |-> 30]
                /\ inst[peer].heartbeat \in {"none", "delivered", "failed"}
                /\ inst[peer].heartbeat = "none" <=> inst[peer].manager_endpoint = NoAddr

\* a request in progress posts no further heartbeat
C21_NoSecondHeartbeat ==
    \A peer \in Peers :
        inst[peer].pc # "idle" => inst'[peer].sent <= inst[peer].sent

\* C21: install_cert answers 200 with the same acknowledgement {status,
\* node_role member, heartbeat interval} when no manager_endpoint is given,
\* when its heartbeat was delivered and when it failed or timed out; it posts
\* at most one heartbeat per call and a heartbeat failure is never an error.
C21_SameAcknowledgement == []C21_Acknowledged /\ [][C21_NoSecondHeartbeat]_vars

\* two nodes about to answer: one whose heartbeat failed, one that got no
\* manager_endpoint; both with the acknowledgement
C21_Witness ==
    \E a, b \in Peers :
        /\ Answering(a) /\ inst[a].heartbeat = "failed" /\ inst[a].ack = InstallAck
        /\ Answering(b) /\ inst[b].heartbeat = "none" /\ inst[b].ack = InstallAck

\* ---- C22
FullOrder == <<"check", "issue", "csr", "sign", "install", "upsert">>

IsPrefix(a, b) == Len(a) <= Len(b) /\ \A i \in 1..Len(a) : a[i] = b[i]

\* the steps an invocation has run are an initial part of the full order
\* (so each ran at most once), and an invocation that ended ran exactly the
\* steps before the one that failed
C22_InOrder ==
    \A p \in Callers :
        /\ IsPrefix(call[p].trace, FullOrder)
        /\ call[p].pc = "upsert" => Len(call[p].trace) = 5
        /\ call[p].pc = "done"
             => CASE call[p].outcome = 400 -> call[p].trace = <<>>
                  [] call[p].outcome = 409 -> Len(call[p].trace) \in {1, 4}
                  [] call[p].outcome = 408 -> Len(call[p].trace) = 3
                  [] call[p].outcome = 500 -> Len(call[p].trace) = 5
                  [] OTHER -> call[p].outcome = 200 /\ call[p].trace = FullOrder

\* the upsert is reached only on the acknowledgement of the candidate
C22_AckedStep ==
    \A p \in Callers :
        (call[p].pc = "install_req" /\ call'[p].pc = "upsert")
        => /\ inst[DeviceBase(call[p].target)].pc = "done"
           /\ inst[DeviceBase(call[p].target)].status_code = 200
           /\ inst[DeviceBase(call[p].target)].req = call[p].token.jti

\* row i after the step is new or differs in more than last_seen
Written(i) ==
    ~\E j \in 1..Len(paired_devices) :
        [paired_devices[j] EXCEPT !.last_seen = NoTime]
            = [paired_devices'[i] EXCEPT !.last_seen = NoTime]

C22_RowStep ==
    \A i \in 1..Len(paired_devices') :
        Written(i)
        => \E p \in Callers :
              /\ call[p].pc = "upsert"
              /\ call'[p].pc = "done" /\ call'[p].outcome = 200
              /\ paired_devices'[i].device_id = call[p].device_csr.device_id
              /\ paired_devices'[i].ip_address = call[p].target

UpsertStep(p) == call[p].pc = "upsert" /\ call'[p].pc = "done"

C23_UpsertStep ==
    \A p \in Callers :
        UpsertStep(p)
        => LET id == call[p].device_csr.device_id
               i == RowIndex(paired_devices, id)
               k == RowIndex(paired_devices', id)
           IN /\ k # 0
              /\ paired_devices'[k].role = "member"
              /\ paired_devices'[k].ip_address = call[p].target
              /\ paired_devices'[k].last_seen = now
              /\ paired_devices'[k].paired_at =
                    IF i # 0 /\ paired_devices[i].paired_at # NoTime
                    THEN paired_devices[i].paired_at ELSE now
              /\ i # 0 => /\ k = i
                          /\ Len(paired_devices') = Len(paired_devices)
                          /\ paired_devices'[k].shared_secret
                                = paired_devices[i].shared_secret
              /\ i = 0 => /\ k = Len(paired_devices) + 1
                          /\ Len(paired_devices') = Len(paired_devices) + 1
              /\ \A j \in 1..Len(paired_devices) :
                    j # k => paired_devices'[j] = paired_devices[j]

HeartbeatStep == Len(log') = Len(log) + 1 /\ log'[Len(log')].op = "heartbeat"

\* the fields of a row a heartbeat must leave alone
KeptFields(row) ==
    <<row.device_id, row.ip_address, row.role, row.cluster_id,
      row.shared_secret, row.paired_at>>

C24_HeartbeatStep ==
    HeartbeatStep
    => LET r == reply'.req
           i == RowIndex(paired_devices, r.device_id)
       IN /\ reply'.status_code = 200
          /\ Len(paired_devices') = Len(paired_devices)
          /\ \A j \in 1..Len(paired_devices) :
                /\ KeptFields(paired_devices'[j]) = KeptFields(paired_devices[j])
                /\ paired_devices'[j].last_seen =
                      IF j # i THEN paired_devices[j].last_seen
                      ELSE IF r.time = NoTime THEN now ELSE r.time
          /\ UNCHANGED <<now, pairing_tokens, device_metadata>>

\* C24: a heartbeat for a registered device_id changes only last_seen of that
\* device's row, to the time of the request or to now when the request has
\* none; every other field and row stays; a heartbeat for an unknown
\* device_id is answered ok, creates no row and changes nothing.
C24_HeartbeatTouchesLastSeenOnly == [][C24_HeartbeatStep]_vars

\* a heartbeat with a time of its own for a registered device and a
\* heartbeat for an unknown device_id have both been answered
C24_Witness ==
    /\ reply.op = "heartbeat"
    /\ RowIndex(paired_devices, reply.req.device_id) = 0
    /\ \E i \in 1..Len(paired_devices) :
          /\ paired_devices[i].last_seen = TickSeconds + 1
          /\ paired_devices[i].paired_at = 0
    /\ Len(log) = 2
    /\ \A k \in 1..2 : log[k].op = "heartbeat" /\ log[k].status_code = 200

\* ---- C25
\* what the node of entry i answers
NodeOf(i) == net[ProbeBase(lst.devices[i])]

\* the health call of entry i ends in this step
HealthEnds(i) ==
    /\ lst.pc = "probing" /\ i \in 1..Len(lst.tasks)
    /\ lst.tasks[i] = "health" /\ lst'.tasks[i] # "health"

C25_InfoTriedStep ==
    \A i \in 1..(ProbePeers + 1) :
        (HealthEnds(i) /\ NodeOf(i).health # "200") => lst'.tasks[i] = "info"

C25_AliveByInfo ==
    (lst.pc = "done" /\ lst.live)
    => \A i \in 1..Len(lst.devices) :
          (lst.devices[i].ip_address # NoAddr /\ NodeOf(i).info \in {"200", "401"})
          => lst.devices[i].status = "online"

\* C25: whenever the health call of a liveness check does not succeed (other
\* status, transport error or timeout), the informational endpoint is tried,
\* and its 200 or 401 answer marks the peer online; a peer keeps its
\* pre-probe status only when neither call shows it alive.
C25_FallbackOnAnyFailure == []C25_AliveByInfo /\ [][C25_InfoTriedStep]_vars

\* ---- C26
\* conflict, peer unreachable, install failed, success
PairOutcomes == {409, 408, 500, 200}

\* invocation p was started with a target address and has not ended
Pairing(p) == call[p].pc \notin {"idle", "done"}

Returned(p) == call[p].pc = "done" /\ call[p].outcome \in PairOutcomes

\* the candidate's install handler waits for the answer to its heartbeat
\* while the manager waits for the answer of this install request
WaitingOnEachOther(p, peer) ==
    /\ call[p].pc = "install_req"
    /\ inst[peer].pc = "heartbeat"
    /\ inst[peer].req = call[p].token.jti
    /\ inst[peer].manager_endpoint = ManagerBase

\* C26: every pairing invocation for a target address eventually returns
\* one of conflict, peer unreachable, install failed or success, given that
\* each outbound call ends with a response or its timeout; also from the
\* states in which the candidate's install handler waits for its heartbeat
\* to the manager while the manager waits for the install answer, and the
\* candidate's handler ends as well.
C26_PairingTerminates ==
    /\ (\E p \in Callers : Pairing(p)) ~> (\E p \in Callers : Returned(p))
    /\ (\E peer \in Peers : inst[peer].pc = "heartbeat")
          ~> (\A peer \in Peers : inst[peer].pc # "heartbeat")

\* the two handlers wait on each other
C26_Witness == \E p \in Callers, peer \in Peers : WaitingOnEachOther(p, peer)

\* ---- C27
\* certificate, key and fingerprint are those of one generated CA
OneCa(cert_pem, key_pem, fp) ==
    \E n \in 1..Len(CaCertPems) :
        generate_ca(n) = [cert_pem |-> cert_pem, key_pem |-> key_pem, fp |-> fp]

C27_StoredCa ==
    LET cert_pem == get_metadata(device_metadata, "ca_cert_pem")
        key_pem == get_metadata(device_metadata, "ca_key_pem")
        fp == get_metadata(device_metadata, "ca_fingerprint")
    IN \/ cert_pem = None /\ key_pem = None /\ fp = None
       \/ OneCa(cert_pem, key_pem, fp)

C27_Bundle ==
    \A s \in Signers :
        (sig[s].pc = "done" /\ sig[s].status_code = 200)
        => sig[s].bundle.ca_cert_pem = sig[s].bundle.device_cert_pem.issuer

\* C27: in every reachable state, with signing requests interleaved at the
\* single reads and writes of the metadata store, the stored CA certificate,
\* key and fingerprint are all absent or those of one generated CA, and the
\* CA certificate in a returned bundle is the certificate of the key that
\* signed the device certificate of that bundle.
C27_CaMaterialConsistent == C27_StoredCa /\ C27_Bundle

\* ---- C28
\* C28: when pairing, heartbeat and revoke calls do not overlap, no two rows
\* of the registry have the same address, neither as stored nor as the
\* host:port it stands for; also when a peer reports a device_id registered
\* under another address and when an address is paired again after a revoke.
C28_NoSharedAddress ==
    \A i, j \in 1..Len(paired_devices) :
        i # j => /\ paired_devices[i].ip_address # paired_devices[j].ip_address
                 /\ DeviceBase(paired_devices[i].ip_address)
                       # DeviceBase(paired_devices[j].ip_address)

\* the second handshake ended well for a peer whose device_id was registered
\* under another address: its row has moved to the new address
C28_Witness ==
    /\ pairsStarted = 2
    /\ call[1].pc = "done" /\ call[1].outcome = 200
    /\ call[1].target = Addr("h2", DefaultPort)
    /\ Len(paired_devices) = 1
    /\ paired_devices[1].ip_address = call[1].target
    /\ paired_devices[1].paired_at = 0
    /\ paired_devices[1].last_seen = TickSeconds

\* ---- C29
\* the install handler of the node at peer has sent its heartbeat
HeartbeatSent(peer) == inst[peer].pc = "heartbeat"

C29_SameDeviceId ==
    \A peer \in Peers :
        HeartbeatSent(peer)
        => InstallHeartbeatDeviceId(peer) = AcceptResponse(peer).device_id

\* the manager applies the heartbeat of the node at peer
C29_AppliedStep ==
    \A peer \in Peers :
        (HeartbeatSent(peer) /\ ~HeartbeatSent(peer)')
        => \A i \in 1..Len(paired_devices) :
              paired_devices'[i] # paired_devices[i]
              => paired_devices[i].device_id = AcceptResponse(peer).device_id

\* C29: the heartbeat install_cert sends carries the device_id this node
\* returned from accept_pairing_request in the same handshake, so that the
\* manager, applying it, refreshes last_seen of this node's row and of no
\* other row.
C29_HeartbeatOfOwnRow == []C29_SameDeviceId /\ [][C29_AppliedStep]_vars

\* ---- C30
\* a setup, health or documentation path
SetupPath(path) == \E prefix \in SetupPrefixes : StartsWith(path, prefix)

\* C30: while no user exists, a request whose path is not a setup, health
\* or documentation path is answered 423 and its handler is not called;
\* once a user exists, requests are passed through.
C30_LockedUntilSetup ==
    reply.op = "http"
    => /\ (~reply.has_user /\ ~SetupPath(reply.path))
            => (reply.status_code = LockedStatus /\ ~reply.handled)
       /\ reply.has_user => reply.handled

====
